---------------------------- MODULE Spec2Model ----------------------------
(***************************************************************************)
(* State-machine model of the LC-Pupillometry-Study experiment controller: *)
(*   - the frame clock      (calculate_frame_periods.get_nearest_frame)    *)
(*   - the block planner    (plan_blocks_and_sessions)                     *)
(*   - the attention selector and the trial/block runner (block_handler)   *)
(*   - the practice gate    (run_practice)                                 *)
(*                                                                         *)
(* Numbers the code holds as floats are held here as exact integers in a   *)
(* stated unit: durations of the frame clock in thousandths of a second,   *)
(* refresh rates in hundredths of a hertz, probabilities and the accepted  *)
(* accuracy in hundredths, planner durations in whole seconds.             *)
(***************************************************************************)
EXTENDS Integers, Sequences, FiniteSets, TLC

VARIABLES
    \* ---- frame clock: get_nearest_frame(desired_duration_sec, fps)
    fpc,                    \* "idle" | "call" | "returned"
    desired_duration_sec,   \* argument, in thousandths of a second
    fps,                    \* argument, in hundredths of a hertz
    n_frames,               \* the value returned
    frame_log,              \* what the call logged: "none" | "info" | "error"
    tie_rules_left,         \* the tie-breaking rules every result so far is consistent with
    \* ---- block planner: populate_session / create_block
    ppc,                    \* "idle" | "call" | "loop" | "draw" | "made" | "filler" | "done"
    max_session_time_min,   \* argument, in hundredths of a minute
    attention_duration_sec, \* argument, seconds
    interim_duration_sec,   \* argument, seconds
    min_standards,          \* argument
    chance_of_oddball,      \* argument, in hundredths
    new_block,              \* the block create_block is building / has returned
    session_blocks,         \* the blocks accepted so far
    estimated_duration,     \* seconds
    filler_added,           \* whether phase 2 appended a filler block
    \* ---- the session loop of main.py around run_block
    blocks_in_session,      \* the blocks of the session being run
    block_counter,          \* index (from 0) of the block being run
    main_delay_countdown,   \* the caller's delay_countdown, threaded through the blocks
    \* ---- run_block: arguments
    condition,              \* "attend" | "divert"
    practice,               \* BOOLEAN
    attention_frames,
    main_stim_frames,
    interim_frames,
    colour_change_chance,   \* in hundredths
    rare_odd_threshold,     \* in hundredths
    defined_response_delay,
    prob_threshold,
    distractor_letters,
    \* ---- run_block: locals and the objects it mutates
    rpc,                    \* where run_block stands
    delay_countdown,
    n_attention_targets,
    n_attention_responses,
    fixation_colour,        \* fixation_circle.color: "norm" | "att"
    fixation_text,          \* letter_stim.text
    trial_counter,
    frameN,
    interim_subloop,
    is_att_target,
    att_letter,
    trial_stim,             \* "unbound" | "standard" | "common" | "rare"
    oddball_name,           \* "unbound" | "common" | "rare"
    keypress_times,
    \* ---- the environment: display clock, recorder, keyboard
    clock,                  \* time of the last frame commit (commits are 2 apart)
    events,                 \* what the last step did, in order
    keys_left,              \* key presses the participant still makes
    marker_log,             \* history: the commits and the ordering markers of the current block
    status_faults_left,     \* non-OK recording statuses the recorder still reports
    \* ---- history kept for the properties
    prev_letter,            \* letter_stim.text before the last selector call
    calls_since_target,     \* selector calls since the last target (-1: no target yet)
    target_gap,             \* calls_since_target when the last target was chosen
    trial_calls,            \* selector calls made in the current trial
    target_chunks,          \* chunks of the current block whose selector call reported a target
    \* --- run_practice (run_practice.py) ---
    prc,                    \* position of run_practice
    experiment_run_number,  \* argument: the run number of the experiment
    accepted_response_accuracy, \* argument, in hundredths
    n_responses,            \* local: responses summed over the practice blocks
    n_targets,              \* local: targets summed over the practice blocks
    expected_responses,     \* local
    lower_bound,            \* local
    upper_bound,            \* local
    practice_complete,      \* the return value
    n_stim_offsets,         \* MAIN_STIM_OFFSET markers sent in the current trial
    \* --- the main loop (main.py, section 8) ---
    mpc,                    \* position of the main loop
    enable_practice,        \* config.ENABLE_PRACTICE_SESSIONS
    ses_order,              \* the condition of each session, in order
    oddball_order,          \* the common oddball of each session, in order
    run_sessions,           \* the planned blocks of each session
    session_counter,        \* loop variable of the session loop
    session_condition,      \* loop variable of the session loop
    main_oddball,           \* loop variable of the session loop
    main_practice_complete, \* main.py's practice_complete
    practiced_conditions,
    recording_started,
    \* ---- history kept for the properties
    step_log,               \* the steps of the current session, in order
    practice_passed         \* conditions for which run_practice has returned True

frameVars == <<fpc, desired_duration_sec, fps, n_frames, frame_log, tie_rules_left>>
planVars  == <<ppc, max_session_time_min, attention_duration_sec, interim_duration_sec,
               min_standards, chance_of_oddball, new_block, session_blocks,
               estimated_duration, filler_added>>
sessionVars == <<blocks_in_session, block_counter, main_delay_countdown>>
runArgs == <<condition, practice, attention_frames, main_stim_frames, interim_frames,
             colour_change_chance, rare_odd_threshold, defined_response_delay,
             prob_threshold, distractor_letters>>
selectorVars == <<delay_countdown, n_attention_targets, fixation_colour, fixation_text,
                  is_att_target, att_letter, prev_letter, calls_since_target, target_gap, trial_calls,
                  target_chunks>>
runLocals == <<rpc, n_attention_responses, trial_counter, frameN, interim_subloop,
               trial_stim, oddball_name, keypress_times, n_stim_offsets>>
envVars == <<clock, events, keys_left, status_faults_left, marker_log>>
runVars == <<sessionVars, runArgs, selectorVars, runLocals, envVars>>
practiceVars == <<prc, experiment_run_number, accepted_response_accuracy, n_responses,
                  n_targets, expected_responses, lower_bound, upper_bound,
                  practice_complete>>
mainVars == <<mpc, enable_practice, ses_order, oddball_order, run_sessions, session_counter,
              session_condition, main_oddball, main_practice_complete, practiced_conditions,
              recording_started, step_log, practice_passed>>
vars == <<frameVars, planVars, runVars, practiceVars, mainVars>>

-----------------------------------------------------------------------------
(* Bounds of the model *)

MaxDurSteps == 40        \* frame-clock durations range over -2*5ms .. MaxDurSteps*5ms
MaxSessionMinutes == 2   \* session budgets range over 0 .. MaxSessionMinutes minutes
MaxMinStandards == 2     \* min_standards ranges over 0 .. MaxMinStandards
MaxBlockLen == 10        \* create_block's unbounded loop is cut at this length
MaxSessionBlocks == 2    \* a session run by the block runner has 1 .. MaxSessionBlocks blocks
MaxFrameBlockLen == 2    \* block lengths of the frame-by-frame sessions
MaxChunkBlockLen == 5    \* block lengths of the chunk-by-chunk sessions
MaxAttentionFrames == 2  \* attention_frames ranges over 1 .. MaxAttentionFrames
MaxInterimChunks == 2    \* interim sub-chunks per trial in the chunk-by-chunk sessions
MaxResponseDelay == 2    \* defined_response_delay ranges over 0 .. MaxResponseDelay
MaxKeys == 1             \* key presses per session
MaxPracticeKeys == 1     \* key presses per practice round
MaxDivertKeys == 2       \* key presses of the divert practice round at accuracy 1.0
MaxMainKeys == 1         \* key presses of a whole run of the main loop
MaxPollKeys == 3         \* key presses of the block run for the key handling
MaxStatusFaults == 1     \* non-OK recording statuses per session

-----------------------------------------------------------------------------
(* Small helpers *)

Abs(x) == IF x < 0 THEN -x ELSE x

RECURSIVE SumLen(_)
SumLen(bs) == IF bs = <<>> THEN 0 ELSE Len(Head(bs)) + SumLen(Tail(bs))

Repeat(x, n) == [i \in 1..n |-> x]

\* random.random() draws a float in [0, 1): here a value in hundredths.
RandDraws == {0, 19, 20, 39, 40, 99}

-----------------------------------------------------------------------------
(* Frame clock *)

FrameUnit == 100000   \* thousandths of a second times hundredths of a hertz per frame

\* desired_duration_sec * float(fps) is a product of two doubles. When the
\* product of the decimal arguments is an exact tie (x.5), the double the
\* code rounds lies on the tie, just above it or just below it. These are
\* the ties among the model's arguments whose IEEE-754 product is off the tie
\* (0.07 * 50.0 = 3.5000000000000004, 0.145 * 100.0 = 14.499999999999998, ...).
FloatProductAbove == {<<70, 5000>>, <<35, 10000>>, <<545, 10000>>}
FloatProductBelow == {<<145, 10000>>, <<575, 10000>>}

IsTie(num, den) == 2 * (num % den) = den

\* Python's round() on a non-negative float: nearest integer, ties to even.
RoundHalfEven(num, den) ==
    LET q == num \div den
        r == num % den
    IN  IF 2 * r < den THEN q
        ELSE IF 2 * r > den THEN q + 1
        ELSE IF q % 2 = 0 THEN q ELSE q + 1

\* int(round(desired_duration_sec * float(fps))) for d >= 0, f > 0
RoundedProductTruncating(d, f) == (d * f) \div FrameUnit
RoundedProduct(d, f) ==
    IF IsTie(d * f, FrameUnit) /\ <<d, f>> \in FloatProductAbove
        THEN (d * f) \div FrameUnit + 1
    ELSE IF IsTie(d * f, FrameUnit) /\ <<d, f>> \in FloatProductBelow
        THEN (d * f) \div FrameUnit
    ELSE RoundHalfEven(d * f, FrameUnit)

GetNearestFrameNoNegativeGuard(d, f) ==
    IF f <= 0 THEN 0 ELSE RoundHalfEven(d * f, FrameUnit)
GetNearestFrame(d, f) ==
    IF f <= 0 THEN 0
    ELSE IF d < 0 THEN 0
    ELSE RoundedProduct(d, f)

GetNearestFrameLog(d, f) ==
    IF f <= 0 THEN "info" ELSE IF d < 0 THEN "error" ELSE "none"

FrameDurations == {5 * k : k \in -2..MaxDurSteps} \cup {545, 575, 2000}
FrameRates == {-6000, 0, 5000, 6000, 9993, 10000, 14400}

\* The tie-breaking rules an observed result is consistent with.
TieRules == {"half_up", "half_down", "half_even", "half_odd"}
RulesAllowing(d, f, n) ==
    IF d < 0 \/ f <= 0 \/ ~IsTie(d * f, FrameUnit) THEN TieRules
    ELSE (IF n = (d * f) \div FrameUnit + 1 THEN {"half_up"} ELSE {})
         \cup (IF n = (d * f) \div FrameUnit THEN {"half_down"} ELSE {})
         \cup (IF n % 2 = 0 THEN {"half_even"} ELSE {"half_odd"})

FrameIdle ==
    /\ fpc = "idle"
    /\ desired_duration_sec = 0
    /\ fps = 0
    /\ n_frames = 0
    /\ frame_log = "none"
    /\ tie_rules_left = TieRules

FrameInit ==
    /\ fpc = "call"
    /\ desired_duration_sec \in FrameDurations
    /\ fps \in FrameRates
    /\ n_frames = 0
    /\ frame_log = "none"
    /\ tie_rules_left = TieRules

\* get_nearest_frame, lines 5-16
GetNearestFrameCall ==
    /\ fpc = "call"
    /\ n_frames' = GetNearestFrame(desired_duration_sec, fps)
    /\ frame_log' = GetNearestFrameLog(desired_duration_sec, fps)
    /\ tie_rules_left' = tie_rules_left
           \cap RulesAllowing(desired_duration_sec, fps, n_frames')
    /\ fpc' = "returned"
    /\ UNCHANGED <<desired_duration_sec, fps>>
    /\ UNCHANGED <<planVars, runVars, practiceVars, mainVars>>

\* the caller asks for another period (main.py computes three of them)
GetNearestFrameAgain ==
    /\ fpc = "returned"
    /\ desired_duration_sec' \in FrameDurations
    /\ fps' \in FrameRates
    /\ fpc' = "call"
    /\ UNCHANGED <<n_frames, frame_log, tie_rules_left>>
    /\ UNCHANGED <<planVars, runVars, practiceVars, mainVars>>

-----------------------------------------------------------------------------
(* Block planner *)

\* create_block: the leading standards
LeadingStandardsShort(n) == Repeat("s", IF n > 0 THEN n - 1 ELSE 0)
LeadingStandards(n) == Repeat("s", n)

\* create_block: the draw that ends the block
DrawIsOddball(rand, chance) == rand < chance

\* populate_session: the accept test of phase 1
FitsBudgetOffByOne(estimated, block_duration, max_seconds) ==
    estimated <= max_seconds
FitsBudget(estimated, block_duration, max_seconds) ==
    estimated + block_duration <= max_seconds

\* populate_session: the length of the filler block of phase 2
MaxFinalBlockLengthRoundedUp(remaining_time, trial_duration) ==
    (remaining_time + trial_duration - 1) \div trial_duration
MaxFinalBlockLength(remaining_time, trial_duration) ==
    remaining_time \div trial_duration

FinalBlock(len) == Repeat("s", len - 1) \o <<"o">>

\* durations are counted in tenths of a second, budgets in hundredths of a minute
TicksPerSecond == 10
MinuteParts == 100
TrialDuration == attention_duration_sec + interim_duration_sec
MaxSesSeconds == (max_session_time_min * 60 * TicksPerSecond) \div MinuteParts

\* a budget of 0.06 minutes with trials of 0.2 s + 1.0 s: exactly one block of
\* min_standards + 1 = 3 trials
ExactFitBudget == 6

\* The code computes with doubles.  Whole seconds are exact; 0.2 s + 2.0 s is the
\* double just above 2.2 and the running total of the accepted blocks carries
\* the rounding of every addition.  For the inputs of ConfigDurationInputs and
\* ExactFitInputs these are the points where the double result differs from the
\* exact one, keyed by <<hundredths of a minute, attention, interim,
\* min_standards, trials accepted so far>>:
\* the accept test fails although the block fits exactly ...
FloatSumAbove == {<<1100, 2, 20, 2, 297>>}
\* ... and remaining_time // trial_duration is one below the exact quotient
\* (also for the inputs of ExactFitInputs: 3.5999999999999996 // 1.2 = 2.0).
FloatQuotientBelow == {<<1100, 2, 20, 2, 297>>, <<ExactFitBudget, 2, 10, 2, 0>>}
FloatKey == <<max_session_time_min, attention_duration_sec, interim_duration_sec,
             min_standards, estimated_duration \div TrialDuration>>

PlanIdle ==
    /\ ppc = "idle"
    /\ max_session_time_min = 0
    /\ attention_duration_sec = 0
    /\ interim_duration_sec = 0
    /\ min_standards = 0
    /\ chance_of_oddball = 0
    /\ new_block = <<>>
    /\ session_blocks = <<>>
    /\ estimated_duration = 0
    /\ filler_added = FALSE

\* whole-second durations with budgets of a few trials
WholeSecondInputs ==
    /\ max_session_time_min \in {MinuteParts * m : m \in 0..MaxSessionMinutes}
    /\ attention_duration_sec \in {50, 70}
    /\ interim_duration_sec \in {80, 130, 550}
    /\ min_standards \in 0..MaxMinStandards
    /\ chance_of_oddball \in {20, 40, 100}

\* the durations of config.py (0.2 s, 2.0 s) with a budget that is a whole
\* number of trials, every block of three trials
ConfigBudgetMinutes == 11
ConfigDurationInputs ==
    /\ max_session_time_min = ConfigBudgetMinutes * MinuteParts
    /\ attention_duration_sec = 2
    /\ interim_duration_sec = 20
    /\ min_standards = 2
    /\ chance_of_oddball = 100

\* the budget of ExactFitBudget with the trials it is an exact multiple of
ExactFitInputs ==
    /\ max_session_time_min = ExactFitBudget
    /\ attention_duration_sec = 2
    /\ interim_duration_sec = 10
    /\ min_standards = 2
    /\ chance_of_oddball \in {40, 100}

PlanInit ==
    /\ ppc = "call"
    /\ (WholeSecondInputs \/ ConfigDurationInputs \/ ExactFitInputs)
    /\ new_block = <<>>
    /\ session_blocks = <<>>
    /\ estimated_duration = 0
    /\ filler_added = FALSE

planArgs == <<max_session_time_min, attention_duration_sec, interim_duration_sec,
              min_standards, chance_of_oddball>>

\* populate_session, lines 51-54
PopulateSessionStart ==
    /\ ppc = "call"
    /\ session_blocks' = <<>>
    /\ estimated_duration' = 0
    /\ filler_added' = FALSE
    /\ ppc' = "loop"
    /\ UNCHANGED <<planArgs, new_block>>
    /\ UNCHANGED <<frameVars, runVars, practiceVars, mainVars>>

\* populate_session line 59 entering create_block, line 18
CreateBlockStart ==
    /\ ppc = "loop"
    /\ new_block' = LeadingStandards(min_standards)
    /\ ppc' = "draw"
    /\ UNCHANGED <<planArgs, session_blocks, estimated_duration, filler_added>>
    /\ UNCHANGED <<frameVars, runVars, practiceVars, mainVars>>

\* create_block, one turn of the while loop (lines 20-30)
CreateBlockDraw ==
    /\ ppc = "draw"
    /\ \E rand \in RandDraws :
         IF DrawIsOddball(rand, chance_of_oddball)
         THEN /\ new_block' = Append(new_block, "o")
              /\ ppc' = "made"
         ELSE /\ Len(new_block) < MaxBlockLen
              /\ new_block' = Append(new_block, "s")
              /\ ppc' = "draw"
    /\ UNCHANGED <<planArgs, session_blocks, estimated_duration, filler_added>>
    /\ UNCHANGED <<frameVars, runVars, practiceVars, mainVars>>

\* populate_session, lines 60-69: accept the block or leave phase 1
AcceptOrStop ==
    /\ ppc = "made"
    /\ LET block_duration == Len(new_block) * TrialDuration
       IN  IF /\ FitsBudget(estimated_duration, block_duration, MaxSesSeconds)
              /\ FloatKey \notin FloatSumAbove
           THEN /\ session_blocks' = Append(session_blocks, new_block)
                /\ estimated_duration' = estimated_duration + block_duration
                /\ ppc' = "loop"
           ELSE /\ UNCHANGED <<session_blocks, estimated_duration>>
                /\ ppc' = "filler"
    /\ UNCHANGED <<planArgs, new_block, filler_added>>
    /\ UNCHANGED <<frameVars, runVars, practiceVars, mainVars>>

\* populate_session, lines 72-90: the optional filler block, then return
FillerAndReturn ==
    /\ ppc = "filler"
    /\ LET remaining_time == MaxSesSeconds - estimated_duration
           max_final_block_length ==
               MaxFinalBlockLength(remaining_time, TrialDuration)
                   - (IF FloatKey \in FloatQuotientBelow THEN 1 ELSE 0)
           min_valid_block_length == min_standards + 1
       IN  IF max_final_block_length >= min_valid_block_length
           THEN /\ session_blocks' = Append(session_blocks, FinalBlock(max_final_block_length))
                /\ estimated_duration' =
                       estimated_duration + max_final_block_length * TrialDuration
                /\ filler_added' = TRUE
           ELSE UNCHANGED <<session_blocks, estimated_duration, filler_added>>
    /\ ppc' = "done"
    /\ UNCHANGED <<planArgs, new_block>>
    /\ UNCHANGED <<frameVars, runVars, practiceVars, mainVars>>

PlanNext ==
    \/ PopulateSessionStart
    \/ CreateBlockStart
    \/ CreateBlockDraw
    \/ AcceptOrStop
    \/ FillerAndReturn

-----------------------------------------------------------------------------
(* Attention task configuration (config.py) *)

TARGET_LETTER == "X"
DISTRACTOR_LETTERS == <<"Z", "L", "N", "T">>
TARGET_PROB_INCREASE_THRESHOLD == -4
STANDARD_COLOUR == "norm"
RESPONSE_COLOUR == "att"
TRIAL_OK == "TRIAL_OK"

-----------------------------------------------------------------------------
(* Attention stimulus selector: get_letter, determine_attention_stimulus *)

InSeq(x, seq) == \E i \in 1..Len(seq) : seq[i] = x

\* list.remove(x): removes the first occurrence only
RemoveFirst(seq, x) ==
    LET idx == CHOOSE i \in 1..Len(seq) : seq[i] = x /\ \A j \in 1..(i - 1) : seq[j] # x
    IN  SubSeq(seq, 1, idx - 1) \o SubSeq(seq, idx + 1, Len(seq))

\* get_letter, lines 30-35
WithoutAvoidedKept(choices, avoid_letter) == choices
WithoutAvoided(choices, avoid_letter) ==
    IF InSeq(avoid_letter, choices) THEN RemoveFirst(choices, avoid_letter) ELSE choices

\* get_letter, line 27: the second copy of the target letter
AddsSecondTargetAlways(countdown, threshold) == TRUE
AddsSecondTarget(countdown, threshold) == countdown <= threshold

\* get_letter, lines 23-35: the list random.choice draws from
GetLetterChoices(allow_target, target_letter, distractors, threshold, countdown, avoid_letter) ==
    LET with_target == IF allow_target THEN Append(distractors, target_letter)
                       ELSE distractors
        with_second == IF allow_target /\ AddsSecondTarget(countdown, threshold)
                       THEN Append(with_target, target_letter)
                       ELSE with_target
    IN  WithoutAvoided(with_second, avoid_letter)

\* run_block, line 147: arange(1, len(block) - 2)
AcceptableTargetIdxsFromFirst(block_len) == 0..(block_len - 3)
AcceptableTargetIdxs(block_len) == 1..(block_len - 3)

\* determine_attention_stimulus, lines 54-58: neither branch that forces the normal colour
AttendGateIgnoresCountdown(trial_idx, acceptable, countdown) == trial_idx \in acceptable
AttendGateOpen(trial_idx, acceptable, countdown) ==
    /\ trial_idx \in acceptable
    /\ ~(countdown > 0)

\* determine_attention_stimulus, lines 70-82: the branch that allows targets
DivertAllowTarget(trial_idx, acceptable, countdown) ==
    /\ trial_idx \in acceptable
    /\ ~(countdown >= 0)

\* determine_attention_stimulus, lines 64 and 92: the reset values
AttendResetValue(delay) == delay + 1
DivertResetUsesCooldown == defined_response_delay + 1
DivertResetValue == 2 + 1

\* determine_attention_stimulus, lines 62 and 90: a target adds one to the count
TargetCountUncounted(count, is_target) == count
TargetCount(count, is_target) == count + (IF is_target THEN 1 ELSE 0)

\* determine_attention_stimulus in the attend condition, for one random draw
SelectAttend(trial_idx, acceptable, rand) ==
    LET fires == /\ AttendGateOpen(trial_idx, acceptable, delay_countdown)
                 /\ colour_change_chance > rand
    IN  [colour    |-> IF fires THEN RESPONSE_COLOUR ELSE STANDARD_COLOUR,
         text      |-> fixation_text,
         n_targets |-> TargetCount(n_attention_targets, fires),
         is_target |-> fires,
         countdown |-> (IF fires THEN AttendResetValue(defined_response_delay)
                        ELSE delay_countdown) - 1,
         letter    |-> "",
         raised    |-> FALSE]

DivertChoices(trial_idx, acceptable) ==
    GetLetterChoices(DivertAllowTarget(trial_idx, acceptable, delay_countdown),
                     TARGET_LETTER, distractor_letters, prob_threshold,
                     delay_countdown, fixation_text)

\* determine_attention_stimulus in the divert condition, for one choice
SelectDivert(trial_idx, acceptable, pick) ==
    LET chosen == DivertChoices(trial_idx, acceptable)[pick]
        target == chosen = TARGET_LETTER
    IN  [colour    |-> fixation_colour,
         text      |-> chosen,
         n_targets |-> TargetCount(n_attention_targets, target),
         is_target |-> target,
         countdown |-> (IF target THEN DivertResetValue ELSE delay_countdown) - 1,
         letter    |-> chosen,
         raised    |-> FALSE]

\* random.choice of an empty list raises IndexError
SelectRaised ==
    [colour |-> fixation_colour, text |-> fixation_text,
     n_targets |-> n_attention_targets, is_target |-> is_att_target,
     countdown |-> delay_countdown, letter |-> att_letter, raised |-> TRUE]

\* every outcome of one call of determine_attention_stimulus
Selections(trial_idx, acceptable) ==
    IF condition = "attend"
    THEN {SelectAttend(trial_idx, acceptable, rand) : rand \in RandDraws}
    ELSE IF DivertChoices(trial_idx, acceptable) = <<>>
         THEN {SelectRaised}
         ELSE {SelectDivert(trial_idx, acceptable, pick) :
                   pick \in 1..Len(DivertChoices(trial_idx, acceptable))}

\* the assignment of the selector's return value (run_block lines 170, 290)
ApplySelection(sel) ==
    /\ fixation_colour' = sel.colour
    /\ fixation_text' = sel.text
    /\ n_attention_targets' = sel.n_targets
    /\ delay_countdown' = sel.countdown
    /\ is_att_target' = sel.is_target
    /\ att_letter' = sel.letter
    /\ prev_letter' = IF sel.raised THEN prev_letter ELSE fixation_text
    /\ target_gap' = IF sel.is_target /\ ~sel.raised THEN calls_since_target
                     ELSE target_gap
    /\ trial_calls' = IF sel.raised THEN trial_calls
                      ELSE (IF rpc = "trial" THEN 0 ELSE trial_calls) + 1
    /\ target_chunks' = target_chunks + (IF sel.is_target /\ ~sel.raised THEN 1 ELSE 0)
    /\ calls_since_target' =
           IF sel.raised THEN calls_since_target
           ELSE IF sel.is_target THEN 0
           ELSE IF calls_since_target < 0 THEN -1
           ELSE calls_since_target + 1

-----------------------------------------------------------------------------
(* Trial/block runner: run_block *)

Block == blocks_in_session[block_counter + 1]

Ev(kind, id, t, frame, info) ==
    [kind |-> kind, id |-> id, t |-> t, at |-> rpc, block |-> block_counter + 1,
     trial |-> trial_counter + 1, frame |-> frame, info |-> info]

\* msg_eyetracker (basic_helpers.py): the message, and its !V form when asked
MsgEyetracker(id, t, frame, info, create_var) ==
    <<Ev("msg", id, t, frame, info)>>
        \o (IF create_var THEN <<Ev("var", id, t, frame, info)>> ELSE <<>>)

\* every call of msg_eyetracker in run_block stands under "if not practice"
MsgEvenInPractice(id, t, frame, info, create_var) ==
    MsgEyetracker(id, t, frame, info, create_var)
MsgUnlessPractice(id, t, frame, info, create_var) ==
    IF practice THEN <<>> ELSE MsgEyetracker(id, t, frame, info, create_var)

\* psychopy.core.monotonicClock.getTime() between two commits
GetTime == clock + 1
\* win.flip(): the time of the commit this step makes
FlipTime == clock + 2

\* run_block lines 203, 213, 260 and 317: the onset and offset messages carry
\* current_flip_time, the value win.flip() returned on this frame
MarkerTimeBeforeCommit == GetTime
MarkerTime == FlipTime

\* run_block lines 207 and 262: the name reported for the main stimulus
StimName(trial_type) == IF trial_type = "s" THEN "standard" ELSE oddball_name

\* run_block lines 180-183: the recording status check of a frame
StatusOutcomes ==
    IF practice THEN {TRIAL_OK}
    ELSE {TRIAL_OK} \cup (IF status_faults_left > 0 THEN {"TRIAL_ERROR"} ELSE {})

StatusEventsUnlogged(status, frame) ==
    IF practice THEN <<>> ELSE <<Ev("status", status, GetTime, frame, <<>>)>>
StatusEvents(status, frame) ==
    IF practice THEN <<>>
    ELSE <<Ev("status", status, GetTime, frame, <<>>)>>
         \o (IF status # TRIAL_OK
             THEN <<Ev("log", "recording stopped", GetTime, frame, <<>>)>>
             ELSE <<>>)

\* psychopy.event.getKeys(timeStamped=...): the presses since the last poll
\* any key other than 'space' takes the else branch; 'escape' stands for them
KeyNames == {"space", "escape"}
Key(name, t) == [name |-> name, t |-> t]
KeyPolls ==
    {ks \in {<<>>}
         \cup {<<Key(n, t)>> : n \in KeyNames, t \in {FlipTime - 1, FlipTime + 1}}
         \cup {<<Key("space", FlipTime - 1), Key(n, FlipTime + 1)>> : n \in KeyNames} :
       Len(ks) <= keys_left}

KeyNamesOf(keys) == [i \in 1..Len(keys) |-> keys[i].name]

\* run_block lines 224-252: the marker of one polled key
KeyMarker(key, frame) ==
    IF key.name = "space"
    THEN MsgUnlessPractice("KEY_RESPONSE", key.t, frame, <<key.name>>, FALSE)
    ELSE MsgUnlessPractice("UNEXPECTED_KEY_RESPONSE", key.t, frame, <<key.name>>, FALSE)

RECURSIVE KeyMarkers(_, _)
KeyMarkers(keys, frame) ==
    IF keys = <<>> THEN <<>>
    ELSE KeyMarker(Head(keys), frame) \o KeyMarkers(Tail(keys), frame)

RECURSIVE KeyTimes(_)
KeyTimes(keys) == IF keys = <<>> THEN <<>> ELSE <<Head(keys).t>> \o KeyTimes(Tail(keys))

\* run_block lines 227-229: only 'space' counts as a response
CountsAnyKey(key) == TRUE
CountsAsResponse(key) == key.name = "space"
NumResponses(keys) == Cardinality({i \in 1..Len(keys) : CountsAsResponse(keys[i])})

\* run_block line 188: the frames on which the main stimulus is drawn
DrawsMainStimInclusive(frame, main_frames) == frame <= main_frames
DrawsMainStim(frame, main_frames) == frame < main_frames

\* run_block line 256: the frame after whose commit the offset marker is sent
SendsStimOffsetOnLastDrawn(frame, main_frames) == frame = main_frames - 1
SendsStimOffset(frame, main_frames) == frame = main_frames

\* run_block lines 199 and 313: the onset markers follow the commit of frame 0
SendsOnsetEveryFrame(frame) == TRUE
SendsOnset(frame) == frame = 0

\* history: the commits and the markers that order a trial, as the steps made them
OrderingMarkerIds ==
    {"BLOCK_START", "TRIALID", "MAIN_STIM_ONSET", "FIXATION_STIM_ONSET",
     "INTERIM_START", "INTERIM_END"}
IsOrderingEvent(e) == e.kind = "flip" \/ (e.kind = "msg" /\ e.id \in OrderingMarkerIds)
OrderingEntries(evs) ==
    LET kept == SelectSeq(evs, IsOrderingEvent)
    IN  [i \in 1..Len(kept) |-> IF kept[i].kind = "flip" THEN "flip" ELSE kept[i].id]
MarkerLogAfter ==
    (IF rpc = "block_start" THEN <<>> ELSE marker_log) \o OrderingEntries(events')

\* run_block line 284
NumOfSubloopsRoundedUp == (interim_frames + attention_frames - 1) \div attention_frames
NumOfSubloops == interim_frames \div attention_frames

FixationValue == IF condition = "attend" THEN fixation_colour ELSE fixation_text
SelectedValue(sel) == IF condition = "attend" THEN sel.colour ELSE sel.text
AttentionType == IF is_att_target THEN "Target" ELSE "Normal"
LetterShown == IF att_letter # "" THEN att_letter ELSE "None"

\* a selector call: the value it set, or the IndexError of random.choice
SelectEvent(sel) ==
    IF sel.raised THEN Ev("raise", "IndexError", GetTime, -1, <<"random.choice">>)
    ELSE Ev("select", SelectedValue(sel), GetTime, -1, <<>>)

\* run_block lines 115-126
RunBlockStart ==
    /\ rpc = "block_start"
    /\ n_attention_targets' = 0
    /\ n_attention_responses' = 0
    /\ target_chunks' = 0
    /\ trial_counter' = 0
    /\ events' = MsgUnlessPractice("BLOCK_START", GetTime, -1, <<>>, FALSE)
    /\ rpc' = "trial"
    /\ UNCHANGED <<delay_countdown, fixation_colour, fixation_text, is_att_target,
                   att_letter, prev_letter, calls_since_target, target_gap, trial_calls>>
    /\ UNCHANGED <<frameN, interim_subloop, trial_stim, oddball_name, keypress_times,
                   n_stim_offsets>>
    /\ UNCHANGED <<clock, keys_left, status_faults_left>>
    /\ UNCHANGED <<sessionVars, runArgs, frameVars, planVars, practiceVars, mainVars>>
    /\ marker_log' = MarkerLogAfter

\* run_block lines 129-174: the head of one trial, up to the selector call
TrialBegin ==
    /\ rpc = "trial"
    /\ trial_counter < Len(Block)
    /\ LET trial_type == Block[trial_counter + 1]
       IN  /\ \E rand \in RandDraws :
                 CASE trial_type = "s" ->
                          /\ trial_stim' = "standard"
                          /\ oddball_name' = oddball_name
                   [] trial_type = "o" ->
                          /\ trial_stim' = IF rand > rare_odd_threshold THEN "rare" ELSE "common"
                          /\ oddball_name' = trial_stim'
                   [] OTHER ->
                          /\ trial_stim' = trial_stim
                          /\ oddball_name' = oddball_name
           /\ \E sel \in Selections(trial_counter, AcceptableTargetIdxs(Len(Block))) :
                 /\ ApplySelection(sel)
                 /\ rpc' = IF sel.raised THEN "raised" ELSE "stim"
                 /\ events' = MsgUnlessPractice("TRIALID", GetTime, -1, <<trial_type>>, TRUE)
                                \o (IF trial_type \notin {"s", "o"}
                                    THEN <<Ev("log", "unknown trial type", GetTime, -1, <<trial_type>>)>>
                                    ELSE <<>>)
                                \o <<SelectEvent(sel)>>
    /\ keypress_times' = <<>>
    /\ frameN' = 0
    /\ n_stim_offsets' = 0
    /\ UNCHANGED <<n_attention_responses, trial_counter, interim_subloop>>
    /\ UNCHANGED <<clock, keys_left, status_faults_left>>
    /\ UNCHANGED <<sessionVars, runArgs, frameVars, planVars, practiceVars, mainVars>>
    /\ marker_log' = MarkerLogAfter

\* run_block lines 177-267: one frame of the stimulus phase
StimFrame ==
    /\ rpc = "stim"
    /\ frameN < attention_frames
    /\ \E status \in StatusOutcomes, keys \in KeyPolls :
         LET trial_type == Block[trial_counter + 1]
             draws_main == DrawsMainStim(frameN, main_stim_frames)
             before == StatusEvents(status, frameN)
                       \o (IF draws_main
                           THEN <<Ev("draw", "main", GetTime, frameN, <<trial_stim>>)>>
                           ELSE <<>>)
             onset == IF SendsOnset(frameN)
                      THEN MsgUnlessPractice("MAIN_STIM_ONSET", MarkerTime, frameN,
                                             <<trial_type, StimName(trial_type)>>, FALSE)
                           \o MsgUnlessPractice("FIXATION_STIM_ONSET", MarkerTime, frameN,
                                                <<trial_type, AttentionType, LetterShown>>, FALSE)
                      ELSE <<>>
             offset == IF SendsStimOffset(frameN, main_stim_frames)
                       THEN MsgUnlessPractice("MAIN_STIM_OFFSET", MarkerTime, frameN,
                                              <<trial_type, StimName(trial_type)>>, FALSE)
                       ELSE <<>>
         IN  IF draws_main /\ trial_stim = "unbound"
             THEN \* trial_stim.draw() on a name no trial has bound
                  /\ events' = StatusEvents(status, frameN)
                        \o <<Ev("raise", "UnboundLocalError", GetTime, frameN, <<"trial_stim">>)>>
                  /\ status_faults_left' =
                         status_faults_left - (IF status = TRIAL_OK THEN 0 ELSE 1)
                  /\ rpc' = "raised"
                  /\ UNCHANGED <<clock, keys_left, frameN, n_attention_responses,
                                 keypress_times, n_stim_offsets>>
             ELSE IF ~practice /\ frameN = 0 /\ StimName(trial_type) = "unbound"
             THEN \* the onset message reads oddball_name, which no trial has bound
                  /\ events' = before
                        \o <<Ev("draw", "fixation", GetTime, frameN, <<FixationValue>>)>>
                        \o <<Ev("flip", "", FlipTime, frameN, <<>>)>>
                        \o <<Ev("raise", "UnboundLocalError", FlipTime, frameN, <<"oddball_name">>)>>
                  /\ clock' = FlipTime
                  /\ status_faults_left' =
                         status_faults_left - (IF status = TRIAL_OK THEN 0 ELSE 1)
                  /\ rpc' = "raised"
                  /\ UNCHANGED <<keys_left, frameN, n_attention_responses, keypress_times,
                                 n_stim_offsets>>
             ELSE /\ events' = before
                        \o <<Ev("draw", "fixation", GetTime, frameN, <<FixationValue>>)>>
                        \o <<Ev("flip", "", FlipTime, frameN, <<>>)>>
                        \o onset
                        \o <<Ev("poll", "", FlipTime + 1, frameN, KeyNamesOf(keys))>>
                        \o KeyMarkers(keys, frameN)
                        \o offset
                  /\ clock' = FlipTime
                  /\ keys_left' = keys_left - Len(keys)
                  /\ status_faults_left' =
                         status_faults_left - (IF status = TRIAL_OK THEN 0 ELSE 1)
                  /\ n_attention_responses' = n_attention_responses + NumResponses(keys)
                  /\ keypress_times' = keypress_times \o KeyTimes(keys)
                  /\ n_stim_offsets' = n_stim_offsets + Len(offset)
                  /\ frameN' = frameN + 1
                  /\ rpc' = IF frameN + 1 < attention_frames THEN "stim" ELSE "interim_start"
    /\ UNCHANGED <<trial_counter, interim_subloop, trial_stim, oddball_name>>
    /\ UNCHANGED <<selectorVars, sessionVars, runArgs, frameVars, planVars, practiceVars, mainVars>>
    /\ marker_log' = MarkerLogAfter

\* run_block lines 273-284: the interim period opens
InterimStart ==
    /\ rpc = "interim_start"
    /\ events' = MsgUnlessPractice("INTERIM_START", GetTime, -1,
                                   <<Block[trial_counter + 1]>>, FALSE)
    /\ interim_subloop' = 0
    /\ rpc' = IF attention_frames = 0 THEN "raised" ELSE "subloop"
    /\ UNCHANGED <<n_attention_responses, trial_counter, frameN, trial_stim, oddball_name,
                   keypress_times, n_stim_offsets>>
    /\ UNCHANGED <<clock, keys_left, status_faults_left>>
    /\ UNCHANGED <<selectorVars, sessionVars, runArgs, frameVars, planVars, practiceVars, mainVars>>
    /\ marker_log' = MarkerLogAfter

\* run_block lines 287-294: the head of one interim sub-chunk, the selector call
SubloopBegin ==
    /\ rpc = "subloop"
    /\ interim_subloop < NumOfSubloops
    /\ \E sel \in Selections(trial_counter, AcceptableTargetIdxs(Len(Block))) :
          /\ ApplySelection(sel)
          /\ rpc' = IF sel.raised THEN "raised" ELSE "interim"
          /\ events' = <<SelectEvent(sel)>>
    /\ frameN' = 0
    /\ UNCHANGED <<n_attention_responses, trial_counter, interim_subloop, trial_stim,
                   oddball_name, keypress_times, n_stim_offsets>>
    /\ UNCHANGED <<clock, keys_left, status_faults_left>>
    /\ UNCHANGED <<sessionVars, runArgs, frameVars, planVars, practiceVars, mainVars>>
    /\ marker_log' = MarkerLogAfter

\* run_block lines 297-357: one frame of an interim sub-chunk
InterimFrame ==
    /\ rpc = "interim"
    /\ frameN < attention_frames
    /\ \E status \in StatusOutcomes, keys \in KeyPolls :
         LET trial_type == Block[trial_counter + 1]
             onset == IF SendsOnset(frameN)
                      THEN MsgUnlessPractice("FIXATION_STIM_ONSET", MarkerTime, frameN,
                                             <<trial_type, AttentionType, LetterShown>>, FALSE)
                      ELSE <<>>
         IN  /\ events' = StatusEvents(status, frameN)
                   \o <<Ev("draw", "fixation", GetTime, frameN, <<FixationValue>>)>>
                   \o <<Ev("flip", "", FlipTime, frameN, <<>>)>>
                   \o onset
                   \o <<Ev("poll", "", FlipTime + 1, frameN, KeyNamesOf(keys))>>
                   \o KeyMarkers(keys, frameN)
             /\ clock' = FlipTime
             /\ keys_left' = keys_left - Len(keys)
             /\ status_faults_left' =
                    status_faults_left - (IF status = TRIAL_OK THEN 0 ELSE 1)
             /\ n_attention_responses' = n_attention_responses + NumResponses(keys)
             /\ keypress_times' = keypress_times \o KeyTimes(keys)
    /\ frameN' = frameN + 1
    /\ IF frameN + 1 < attention_frames
       THEN /\ rpc' = "interim"
            /\ interim_subloop' = interim_subloop
       ELSE /\ rpc' = "subloop"
            /\ interim_subloop' = interim_subloop + 1
    /\ UNCHANGED <<trial_counter, trial_stim, oddball_name, n_stim_offsets>>
    /\ UNCHANGED <<selectorVars, sessionVars, runArgs, frameVars, planVars, practiceVars, mainVars>>
    /\ marker_log' = MarkerLogAfter

\* run_block lines 359-368: the interim period closes, the next trial follows
TrialEnd ==
    /\ rpc = "subloop"
    /\ interim_subloop >= NumOfSubloops
    /\ events' = MsgUnlessPractice("INTERIM_END", GetTime, -1,
                                   <<Block[trial_counter + 1]>>, FALSE)
    /\ trial_counter' = trial_counter + 1
    /\ rpc' = "trial"
    /\ UNCHANGED <<n_attention_responses, frameN, interim_subloop, trial_stim, oddball_name,
                   keypress_times, n_stim_offsets>>
    /\ UNCHANGED <<clock, keys_left, status_faults_left>>
    /\ UNCHANGED <<selectorVars, sessionVars, runArgs, frameVars, planVars, practiceVars, mainVars>>
    /\ marker_log' = MarkerLogAfter

\* run_block line 370
RunBlockReturn ==
    /\ rpc = "trial"
    /\ trial_counter >= Len(Block)
    /\ rpc' = "returned"
    /\ events' = <<>>
    /\ UNCHANGED <<n_attention_responses, trial_counter, frameN, interim_subloop,
                   trial_stim, oddball_name, keypress_times, n_stim_offsets>>
    /\ UNCHANGED <<clock, keys_left, status_faults_left>>
    /\ UNCHANGED <<selectorVars, sessionVars, runArgs, frameVars, planVars, practiceVars, mainVars>>
    /\ marker_log' = MarkerLogAfter

\* the recorder calls of run_block stand in no try block: when the first recorder
\* call of the next step (el_tracker.sendMessage, el_tracker.isRecording) raises,
\* the exception leaves run_block
FirstCallIsToRecorder ==
    /\ ~practice
    /\ CASE rpc = "block_start" -> TRUE
         [] rpc = "trial" -> trial_counter < Len(Block)
         [] rpc = "stim" -> TRUE
         [] rpc = "interim_start" -> TRUE
         [] rpc = "interim" -> TRUE
         [] rpc = "subloop" -> interim_subloop >= NumOfSubloops
         [] OTHER -> FALSE

DeviceFailure ==
    /\ FirstCallIsToRecorder
    /\ n_attention_targets' = IF rpc = "block_start" THEN 0 ELSE n_attention_targets
    /\ n_attention_responses' = IF rpc = "block_start" THEN 0 ELSE n_attention_responses
    /\ events' = <<Ev("raise", "RuntimeError", GetTime, -1, <<"recorder">>)>>
    /\ rpc' = "raised"
    /\ target_chunks' = IF rpc = "block_start" THEN 0 ELSE target_chunks
    /\ UNCHANGED <<delay_countdown, fixation_colour, fixation_text, is_att_target,
                   att_letter, prev_letter, calls_since_target, target_gap, trial_calls>>
    /\ UNCHANGED <<trial_counter, frameN, interim_subloop, trial_stim, oddball_name,
                   keypress_times, n_stim_offsets>>
    /\ UNCHANGED <<clock, keys_left, status_faults_left>>
    /\ UNCHANGED <<sessionVars, runArgs, frameVars, planVars, practiceVars, mainVars>>
    /\ marker_log' = marker_log

RunBlockNext ==
    \/ RunBlockStart
    \/ TrialBegin
    \/ StimFrame
    \/ InterimStart
    \/ SubloopBegin
    \/ InterimFrame
    \/ TrialEnd
    \/ RunBlockReturn

-----------------------------------------------------------------------------
(* The session loop of main.py: the blocks of a session, one after the other *)

\* main.py lines 576-603: the countdown run_block returns is passed to the next block
CountdownAfterBlockReset == defined_response_delay
CountdownAfterBlock == delay_countdown

SessionLoopStep ==
    /\ rpc = "returned"
    /\ main_delay_countdown' = CountdownAfterBlock
    /\ IF block_counter + 1 < Len(blocks_in_session)
       THEN /\ block_counter' = block_counter + 1
            /\ rpc' = "block_start"
       ELSE /\ block_counter' = block_counter
            /\ rpc' = "session_done"
    /\ events' = <<>>
    /\ UNCHANGED blocks_in_session
    /\ UNCHANGED <<n_attention_responses, trial_counter, frameN, interim_subloop,
                   trial_stim, oddball_name, keypress_times, n_stim_offsets>>
    /\ UNCHANGED <<clock, keys_left, status_faults_left>>
    /\ UNCHANGED <<selectorVars, runArgs, frameVars, planVars, practiceVars, mainVars>>
    /\ marker_log' = marker_log

\* the blocks the planner builds: standards, then one oddball
PlannedBlocks(max_len) == {Repeat("s", n - 1) \o <<"o">> : n \in 1..max_len}
Sessions(max_blocks, max_len) ==
    UNION {[1..k -> PlannedBlocks(max_len)] : k \in 1..max_blocks}

RunIdle ==
    /\ blocks_in_session = <<>>
    /\ block_counter = 0
    /\ main_delay_countdown = 0
    /\ condition = "attend"
    /\ practice = FALSE
    /\ attention_frames = 0
    /\ main_stim_frames = 0
    /\ interim_frames = 0
    /\ colour_change_chance = 0
    /\ rare_odd_threshold = 0
    /\ defined_response_delay = 0
    /\ prob_threshold = 0
    /\ distractor_letters = <<>>
    /\ rpc = "idle"
    /\ delay_countdown = 0
    /\ n_attention_targets = 0
    /\ n_attention_responses = 0
    /\ fixation_colour = STANDARD_COLOUR
    /\ fixation_text = " "
    /\ trial_counter = 0
    /\ frameN = 0
    /\ interim_subloop = 0
    /\ is_att_target = FALSE
    /\ att_letter = ""
    /\ trial_stim = "unbound"
    /\ oddball_name = "unbound"
    /\ keypress_times = <<>>
    /\ clock = 0
    /\ events = <<>>
    /\ keys_left = 0
    /\ status_faults_left = 0
    /\ marker_log = <<>>
    /\ prev_letter = " "
    /\ calls_since_target = -1
    /\ target_gap = -1
    /\ trial_calls = 0
    /\ target_chunks = 0
    /\ n_stim_offsets = 0

\* the arguments and locals with which the first block of a session is called
SessionInitLetters(sessions, conditions, practices, att_frames, main_frames, int_frames, delays, keys, faults, letter_lists) ==
    /\ blocks_in_session \in sessions
    /\ block_counter = 0
    /\ condition \in conditions
    /\ practice \in practices
    /\ attention_frames \in att_frames
    /\ main_stim_frames \in main_frames
    /\ interim_frames \in int_frames
    /\ colour_change_chance = 40
    /\ rare_odd_threshold = 75
    /\ defined_response_delay \in delays
    /\ main_delay_countdown = defined_response_delay
    /\ delay_countdown = defined_response_delay
    /\ prob_threshold = TARGET_PROB_INCREASE_THRESHOLD
    /\ distractor_letters \in letter_lists
    /\ n_attention_targets = 0
    /\ n_attention_responses = 0
    /\ fixation_colour = STANDARD_COLOUR
    /\ fixation_text = " "
    /\ trial_counter = 0
    /\ frameN = 0
    /\ interim_subloop = 0
    /\ is_att_target = FALSE
    /\ att_letter = ""
    /\ trial_stim = "unbound"
    /\ oddball_name = "unbound"
    /\ keypress_times = <<>>
    /\ clock = 0
    /\ events = <<>>
    /\ keys_left = keys
    /\ status_faults_left = faults
    /\ marker_log = <<>>
    /\ prev_letter = " "
    /\ calls_since_target = -1
    /\ target_gap = -1
    /\ trial_calls = 0
    /\ target_chunks = 0
    /\ n_stim_offsets = 0

\* the same with the distractor letters of config.py
SessionInit(sessions, conditions, practices, att_frames, main_frames, int_frames, delays, keys, faults) ==
    SessionInitLetters(sessions, conditions, practices, att_frames, main_frames, int_frames, delays, keys, faults, {DISTRACTOR_LETTERS})

\* distractor lists of one, two and four letters
DistractorLists == {<<"Z">>, <<"Z", "L">>, DISTRACTOR_LETTERS}

SessionNext == RunBlockNext \/ SessionLoopStep

\* blocks with a trial type that is neither 's' nor 'o'
UnknownTypeBlocks == {<<"x">>, <<"x", "o">>, <<"s", "x">>, <<"o", "x">>}

-----------------------------------------------------------------------------
(* Practice gate: run_practice *)

\* run_practice lines 87-90
ExpectedResponsesAllTargets(practice_condition, num_targets) == num_targets
ExpectedResponses(practice_condition, num_targets) ==
    IF practice_condition = "attend" THEN num_targets ELSE num_targets \div 3

\* run_practice line 93: floor(expected * accuracy), accuracy in hundredths
LowerBound(expected, accuracy) == (expected * accuracy) \div 100

\* run_practice line 94: ceil(expected * (2 - accuracy)), accuracy in hundredths
UpperBound(expected, accuracy) == (expected * (200 - accuracy) + 99) \div 100

\* run_practice line 21: practice blocks are run on a first run only
RunsPracticeUpToSecond(run_number) == run_number <= 2
RunsPractice(run_number) == run_number <= 1

\* run_practice line 102
WithinBoundsStrict(lower, n, upper) == lower < n /\ n < upper
WithinBounds(lower, n, upper) == lower <= n /\ n <= upper

PracticeIdle ==
    /\ prc = "idle"
    /\ experiment_run_number = 1
    /\ accepted_response_accuracy = 0
    /\ n_responses = 0
    /\ n_targets = 0
    /\ expected_responses = 0
    /\ lower_bound = 0
    /\ upper_bound = 0
    /\ practice_complete = FALSE

\* run_practice lines 19-45 and 113-129: entry, and the run number test
RunPracticeCall ==
    /\ prc = "call"
    /\ IF RunsPractice(experiment_run_number)
       THEN /\ practice_complete' = FALSE
            /\ ppc' = "call"
            /\ prc' = "planning"
       ELSE /\ practice_complete' = TRUE
            /\ ppc' = ppc
            /\ prc' = "done"
    /\ UNCHANGED <<experiment_run_number, accepted_response_accuracy, n_responses,
                   n_targets, expected_responses, lower_bound, upper_bound>>
    /\ UNCHANGED <<planArgs, new_block, session_blocks, estimated_duration, filler_added>>
    /\ UNCHANGED <<frameVars, runVars, mainVars>>

\* run_practice lines 51-53: the planned blocks are run one after the other
PracticeBlocksBegin ==
    /\ prc = "planning"
    /\ ppc = "done"
    /\ n_responses' = 0
    /\ n_targets' = 0
    /\ blocks_in_session' = session_blocks
    /\ block_counter' = 0
    /\ IF session_blocks = <<>>
       THEN /\ prc' = "evaluate"
            /\ rpc' = rpc
       ELSE /\ prc' = "blocks"
            /\ rpc' = "block_start"
    /\ UNCHANGED <<experiment_run_number, accepted_response_accuracy, expected_responses,
                   lower_bound, upper_bound, practice_complete>>
    /\ UNCHANGED <<main_delay_countdown, runArgs, selectorVars, envVars>>
    /\ UNCHANGED <<n_attention_responses, trial_counter, frameN, interim_subloop,
                   trial_stim, oddball_name, keypress_times, n_stim_offsets>>
    /\ UNCHANGED <<frameVars, planVars, mainVars>>

\* run_practice lines 54 and 83-84: the counts a block returns are added up
PracticeBlockReturned ==
    /\ prc = "blocks"
    /\ rpc = "returned"
    /\ n_responses' = n_responses + n_attention_responses
    /\ n_targets' = n_targets + n_attention_targets
    /\ IF block_counter + 1 < Len(blocks_in_session)
       THEN /\ block_counter' = block_counter + 1
            /\ rpc' = "block_start"
            /\ prc' = "blocks"
       ELSE /\ block_counter' = block_counter
            /\ rpc' = "idle"
            /\ prc' = "evaluate"
    /\ events' = <<>>
    /\ UNCHANGED <<experiment_run_number, accepted_response_accuracy, expected_responses,
                   lower_bound, upper_bound, practice_complete>>
    /\ UNCHANGED <<blocks_in_session, main_delay_countdown, runArgs, selectorVars>>
    /\ UNCHANGED <<n_attention_responses, trial_counter, frameN, interim_subloop,
                   trial_stim, oddball_name, keypress_times, n_stim_offsets>>
    /\ UNCHANGED <<clock, keys_left, status_faults_left>>
    /\ UNCHANGED <<frameVars, planVars, mainVars>>
    /\ marker_log' = marker_log

\* run_practice lines 87-111 and 131: the bounds, the test and the result
PracticeEvaluate ==
    /\ prc = "evaluate"
    /\ expected_responses' = ExpectedResponses(condition, n_targets)
    /\ lower_bound' = LowerBound(expected_responses', accepted_response_accuracy)
    /\ upper_bound' = UpperBound(expected_responses', accepted_response_accuracy)
    /\ practice_complete' = WithinBounds(lower_bound', n_responses, upper_bound')
    /\ prc' = "done"
    /\ UNCHANGED <<experiment_run_number, accepted_response_accuracy, n_responses, n_targets>>
    /\ UNCHANGED <<frameVars, planVars, runVars, mainVars>>

PracticeNext ==
    \/ RunPracticeCall
    \/ PlanNext
    \/ PracticeBlocksBegin
    \/ RunBlockNext
    \/ PracticeBlockReturned
    \/ PracticeEvaluate

-----------------------------------------------------------------------------
(* The main loop: main.py section 8, one session after the other *)

CHANCE_OF_FIXATION_CHANGE == 10            \* in hundredths
PRACTICE_CHANCE_OF_FIXATION_CHANGE == 40   \* in hundredths
ACCEPTABLE_ACCURACY == 70                  \* in hundredths

\* main.py lines 111-116: ses_options shuffled, then flattened
SesOrders ==
    {<<"attend", "attend", "divert", "divert">>, <<"divert", "divert", "attend", "attend">>}

\* main.py lines 122-125: oddball_types shuffled, the pattern repeated for 4 sessions
OddballTypes == <<"fine gabor", "noise disk">>
Shuffles(pair) == {pair, <<pair[2], pair[1]>>}
OddballOrderPaired(types) == <<types[1], types[1], types[2], types[2]>>
OddballOrder(types) == <<types[1], types[2], types[1], types[2]>>
OddballOrders == {OddballOrder(types) : types \in Shuffles(OddballTypes)}

\* main.py lines 409-415: a practice is due when enabled and not yet done
PracticeNeededNever(enabled, cond, practiced) == FALSE
PracticeNeeded(enabled, cond, practiced) == enabled /\ cond \notin practiced

\* main.py line 626: no break after the last session
OffersBreakAlways(counter, num_sessions) == TRUE
OffersBreak(counter, num_sessions) == counter # num_sessions - 1

runArgsKept == <<attention_frames, main_stim_frames, interim_frames, rare_odd_threshold,
                 defined_response_delay, prob_threshold, distractor_letters>>
selectorKept == <<n_attention_targets, fixation_colour, fixation_text, is_att_target,
                  att_letter, prev_letter, calls_since_target, target_gap, trial_calls,
                  target_chunks>>
mainInputs == <<enable_practice, ses_order, oddball_order, run_sessions>>

MainIdle ==
    /\ mpc = "idle"
    /\ enable_practice = FALSE
    /\ ses_order = <<>>
    /\ oddball_order = <<>>
    /\ run_sessions = <<>>
    /\ session_counter = 0
    /\ session_condition = "none"
    /\ main_oddball = "none"
    /\ main_practice_complete = FALSE
    /\ practiced_conditions = {}
    /\ recording_started = FALSE
    /\ step_log = <<>>
    /\ practice_passed = {}

\* main.py lines 385-415: the head of the session loop and the practice test
MainSessionStart ==
    /\ mpc = "session_start"
    /\ session_counter < Len(ses_order)
    /\ session_condition' = ses_order[session_counter + 1]
    /\ main_oddball' = oddball_order[session_counter + 1]
    /\ main_practice_complete' =
           ~PracticeNeeded(enable_practice, session_condition', practiced_conditions)
    /\ step_log' = <<"practice_gate">>
    /\ mpc' = "practice_loop"
    /\ UNCHANGED <<mainInputs, session_counter, practiced_conditions, recording_started,
                   practice_passed>>
    /\ UNCHANGED <<frameVars, planVars, runVars, practiceVars>>

\* main.py lines 418-453 and 470: the head of the while loop; the call of
\* run_practice with main's countdown; after the loop the condition is marked
MainPracticeLoop ==
    /\ mpc = "practice_loop"
    /\ IF ~main_practice_complete
       THEN IF session_condition \notin practiced_conditions /\ enable_practice
            THEN /\ prc' = "call"
                 /\ condition' = session_condition
                 /\ practice' = TRUE
                 /\ colour_change_chance' = PRACTICE_CHANCE_OF_FIXATION_CHANGE
                 /\ delay_countdown' = main_delay_countdown
                 /\ mpc' = "practice"
                 /\ UNCHANGED <<step_log, practiced_conditions>>
            ELSE /\ mpc' = "practice_loop"
                 /\ step_log' = Append(step_log, "retry_message")
                 /\ UNCHANGED <<prc, condition, practice, colour_change_chance,
                                delay_countdown, practiced_conditions>>
       ELSE /\ practiced_conditions' = practiced_conditions \cup {session_condition}
            /\ mpc' = "drift_check"
            /\ UNCHANGED <<prc, condition, practice, colour_change_chance,
                           delay_countdown, step_log>>
    /\ UNCHANGED <<mainInputs, session_counter, session_condition, main_oddball, main_practice_complete,
                   recording_started, practice_passed>>
    /\ UNCHANGED <<experiment_run_number, accepted_response_accuracy, n_responses,
                   n_targets, expected_responses, lower_bound, upper_bound,
                   practice_complete>>
    /\ UNCHANGED <<sessionVars, runArgsKept, selectorKept, runLocals, envVars>>
    /\ UNCHANGED <<frameVars, planVars>>

\* main.py line 421: run_practice returns practice_complete only; the countdown
\* its blocks returned stays in run_practice
CountdownAfterPracticeReturned == delay_countdown
CountdownAfterPractice == main_delay_countdown

\* main.py lines 421 and 454-467: the result of run_practice and the message
MainPracticeReturned ==
    /\ mpc = "practice"
    /\ prc = "done"
    /\ main_practice_complete' = practice_complete
    /\ step_log' = Append(step_log, IF practice_complete THEN "attempt_pass"
                                                         ELSE "attempt_fail")
    /\ practice_passed' = IF practice_complete
                          THEN practice_passed \cup {session_condition}
                          ELSE practice_passed
    /\ main_delay_countdown' = CountdownAfterPractice
    /\ prc' = "idle"
    /\ mpc' = "practice_loop"
    /\ UNCHANGED <<mainInputs, session_counter, session_condition, main_oddball, practiced_conditions,
                   recording_started>>
    /\ UNCHANGED <<experiment_run_number, accepted_response_accuracy, n_responses,
                   n_targets, expected_responses, lower_bound, upper_bound,
                   practice_complete>>
    /\ UNCHANGED <<blocks_in_session, block_counter, runArgs, selectorVars, runLocals, envVars>>
    /\ UNCHANGED <<frameVars, planVars>>

\* main.py lines 474-504: every outcome of doDriftCorrect is logged or caught
MainDriftCheck ==
    /\ mpc = "drift_check"
    /\ step_log' = Append(step_log, "drift_check")
    /\ mpc' = "start_recording"
    /\ UNCHANGED <<mainInputs, session_counter, session_condition, main_oddball, main_practice_complete,
                   practiced_conditions, recording_started, practice_passed>>
    /\ UNCHANGED <<frameVars, planVars, runVars, practiceVars>>

\* main.py lines 507-531: startRecording returns 0 or an error code; the error
\* is raised and caught in place
MainStartRecording ==
    /\ mpc = "start_recording"
    /\ \E error \in {0, 1} : recording_started' = (error = 0)
    /\ step_log' = Append(step_log, "recording_start")
    /\ mpc' = "adaptation"
    /\ UNCHANGED <<mainInputs, session_counter, session_condition, main_oddball, main_practice_complete,
                   practiced_conditions, practice_passed>>
    /\ UNCHANGED <<frameVars, planVars, runVars, practiceVars>>

\* main.py lines 534-569
MainAdaptation ==
    /\ mpc = "adaptation"
    /\ step_log' = Append(step_log, "adaptation")
    /\ mpc' = "run_session"
    /\ UNCHANGED <<mainInputs, session_counter, session_condition, main_oddball, main_practice_complete,
                   practiced_conditions, recording_started, practice_passed>>
    /\ UNCHANGED <<frameVars, planVars, runVars, practiceVars>>

\* main.py lines 574-606: the blocks of the session; the first call of run_block
MainSessionRunner ==
    /\ mpc = "run_session"
    /\ blocks_in_session' = run_sessions[session_counter + 1]
    /\ block_counter' = 0
    /\ condition' = session_condition
    /\ practice' = FALSE
    /\ colour_change_chance' = CHANCE_OF_FIXATION_CHANGE
    /\ delay_countdown' = main_delay_countdown
    /\ rpc' = IF blocks_in_session' = <<>> THEN "session_done" ELSE "block_start"
    /\ step_log' = Append(step_log, "blocks")
    /\ mpc' = "blocks"
    /\ UNCHANGED <<mainInputs, session_counter, session_condition, main_oddball, main_practice_complete,
                   practiced_conditions, recording_started, practice_passed>>
    /\ UNCHANGED <<main_delay_countdown, runArgsKept, selectorKept, envVars>>
    /\ UNCHANGED <<n_attention_responses, trial_counter, frameN, interim_subloop,
                   trial_stim, oddball_name, keypress_times, n_stim_offsets>>
    /\ UNCHANGED <<frameVars, planVars, practiceVars>>

\* main.py lines 577-606: the next block of the session
MainBlockReturned ==
    /\ mpc = "blocks"
    /\ SessionLoopStep

\* main.py lines 609-621
MainStopRecording ==
    /\ mpc = "blocks"
    /\ rpc = "session_done"
    /\ step_log' = IF recording_started THEN Append(step_log, "recording_stop")
                                        ELSE step_log
    /\ rpc' = "idle"
    /\ mpc' = "break"
    /\ UNCHANGED <<mainInputs, session_counter, session_condition, main_oddball, main_practice_complete,
                   practiced_conditions, recording_started, practice_passed>>
    /\ UNCHANGED <<sessionVars, runArgs, selectorVars, envVars>>
    /\ UNCHANGED <<n_attention_responses, trial_counter, frameN, interim_subloop,
                   trial_stim, oddball_name, keypress_times, n_stim_offsets>>
    /\ UNCHANGED <<frameVars, planVars, practiceVars>>

\* main.py lines 624-631 and the step of the session loop
MainBreak ==
    /\ mpc = "break"
    /\ step_log' = IF OffersBreak(session_counter, Len(ses_order))
                   THEN Append(step_log, "break")
                   ELSE step_log
    /\ session_counter' = session_counter + 1
    /\ mpc' = "session_start"
    /\ UNCHANGED <<mainInputs, session_condition, main_oddball, main_practice_complete,
                   practiced_conditions, recording_started, practice_passed>>
    /\ UNCHANGED <<frameVars, planVars, runVars, practiceVars>>

MainNext ==
    \/ MainSessionStart
    \/ MainPracticeLoop
    \/ MainPracticeReturned
    \/ MainDriftCheck
    \/ MainStartRecording
    \/ MainAdaptation
    \/ MainSessionRunner
    \/ MainBlockReturned
    \/ MainStopRecording
    \/ MainBreak
    \/ PracticeNext

\* the session plans of the model: one or two short blocks
MainSessions == {<<<<"o">>>>, <<<<"s", "o">>, <<"o">>>>}

\* main.py lines 94-109: a plan for each session of the run
RunPlans(num_sessions) ==
    {[i \in 1..num_sessions |-> IF i % 2 = 1 THEN odd ELSE even] :
        odd \in MainSessions, even \in MainSessions}

-----------------------------------------------------------------------------
(* Specifications *)

\* get_nearest_frame applied to every input of the bounded sets
InitFrames == FrameInit /\ PlanIdle /\ RunIdle /\ PracticeIdle /\ MainIdle
NextFrames == GetNearestFrameCall \/ GetNearestFrameAgain
SpecFrames == InitFrames /\ [][NextFrames]_vars

\* populate_session run on every argument tuple of the bounded sets
InitPlan == PlanInit /\ FrameIdle /\ RunIdle /\ PracticeIdle /\ MainIdle
SpecPlan == InitPlan /\ [][PlanNext]_vars

\* the same under the scheduling of the code: a step that is due is taken
\* (the loops have no waiting point), and random.random() eventually returns
\* a value below the chance (create_block line 25)
PlanFairness ==
    /\ WF_vars(PlanNext)
    /\ SF_vars(CreateBlockDraw /\ ppc' = "made")
SpecPlanFair == InitPlan /\ [][PlanNext]_vars /\ PlanFairness

\* one short block run frame by frame, with key presses and status faults
InitSpec ==
    /\ SessionInit(Sessions(1, MaxFrameBlockLen), {"attend", "divert"},
                   BOOLEAN, 1..MaxAttentionFrames, 0..(MaxAttentionFrames + 1),
                   0..MaxAttentionFrames, {1}, MaxKeys, MaxStatusFaults)
    /\ rpc = "block_start"
    /\ FrameIdle
    /\ MainIdle
    /\ PlanIdle
    /\ PracticeIdle
Spec == InitSpec /\ [][SessionNext]_vars

\* sessions of longer blocks, one frame per chunk: the sequence of selector calls
InitChunks ==
    /\ SessionInit(Sessions(MaxSessionBlocks, MaxChunkBlockLen), {"attend", "divert"},
                   {FALSE}, {1}, {1}, 0..MaxInterimChunks, 0..MaxResponseDelay, 0, 0)
    /\ rpc = "block_start"
    /\ FrameIdle
    /\ MainIdle
    /\ PlanIdle
    /\ PracticeIdle
SpecChunks == InitChunks /\ [][SessionNext]_vars

\* one block, planned or with an unknown trial type, run frame by frame with a
\* recorder whose calls can fail
InitFaults ==
    /\ SessionInit({<<b>> : b \in PlannedBlocks(MaxFrameBlockLen) \cup UnknownTypeBlocks},
                   {"attend", "divert"}, BOOLEAN, 1..MaxAttentionFrames,
                   0..MaxAttentionFrames, 0..MaxAttentionFrames, {1}, 0, 0)
    /\ rpc = "block_start"
    /\ FrameIdle
    /\ MainIdle
    /\ PlanIdle
    /\ PracticeIdle
FaultsNext == SessionNext \/ DeviceFailure
SpecFaults == InitFaults /\ [][FaultsNext]_vars

\* one block of two trials with up to MaxPollKeys presses, polled one or two at
\* a time, of the response key or of another key
InitKeys ==
    /\ SessionInit({<<<<"s", "o">>>>}, {"attend", "divert"}, BOOLEAN, {MaxAttentionFrames},
                   {1}, {MaxAttentionFrames}, {1}, MaxPollKeys, 0)
    /\ rpc = "block_start"
    /\ FrameIdle
    /\ MainIdle
    /\ PlanIdle
    /\ PracticeIdle
SpecKeys == InitKeys /\ [][SessionNext]_vars

\* divert blocks run with distractor lists of one, two and four letters
InitLetters ==
    /\ SessionInitLetters({<<b>> : b \in PlannedBlocks(MaxChunkBlockLen)}, {"divert"},
                          BOOLEAN, {1}, {1}, 0..MaxInterimChunks, {0}, 0, 0,
                          DistractorLists)
    /\ rpc = "block_start"
    /\ FrameIdle
    /\ MainIdle
    /\ PlanIdle
    /\ PracticeIdle
SpecLetters == InitLetters /\ [][SessionNext]_vars

\* run_practice from its call to its return: planning, the blocks, the gate
InitPractice ==
    /\ SessionInit({<<>>}, {"attend", "divert"}, {TRUE}, {1}, {1}, {MaxInterimChunks},
                   {0, 1}, MaxPracticeKeys, 0)
    /\ rpc = "idle"
    /\ prc = "call"
    /\ experiment_run_number \in {1, 2}
    /\ accepted_response_accuracy = 70
    /\ n_responses = 0
    /\ n_targets = 0
    /\ expected_responses = 0
    /\ lower_bound = 0
    /\ upper_bound = 0
    /\ practice_complete = FALSE
    /\ ppc = "idle"
    /\ max_session_time_min = 1 * MinuteParts
    /\ attention_duration_sec = 50
    /\ interim_duration_sec = 80
    /\ min_standards = 2
    /\ chance_of_oddball = 40
    /\ new_block = <<>>
    /\ session_blocks = <<>>
    /\ estimated_duration = 0
    /\ filler_added = FALSE
    /\ FrameIdle
    /\ MainIdle
SpecPractice == InitPractice /\ [][PracticeNext]_vars

\* a divert practice round at accuracy 1.0 whose plan is one block of six trials
InitPracticeDivert ==
    /\ SessionInit({<<>>}, {"divert"}, {TRUE}, {1}, {1}, {MaxInterimChunks},
                   {0}, MaxDivertKeys, 0)
    /\ rpc = "idle"
    /\ prc = "call"
    /\ experiment_run_number = 1
    /\ accepted_response_accuracy = 100
    /\ n_responses = 0
    /\ n_targets = 0
    /\ expected_responses = 0
    /\ lower_bound = 0
    /\ upper_bound = 0
    /\ practice_complete = FALSE
    /\ ppc = "idle"
    /\ max_session_time_min = 2 * MinuteParts
    /\ attention_duration_sec = 50
    /\ interim_duration_sec = 150
    /\ min_standards = 5
    /\ chance_of_oddball = 100
    /\ new_block = <<>>
    /\ session_blocks = <<>>
    /\ estimated_duration = 0
    /\ filler_added = FALSE
    /\ FrameIdle
    /\ MainIdle
SpecPracticeDivert == InitPracticeDivert /\ [][PracticeNext]_vars

\* the whole run: four sessions, practice enabled or not, a first or a later run
\* (with one outcome of the oddball shuffle: no step of the run reads the names)
InitMain ==
    /\ SessionInit({<<>>}, {"attend"}, {FALSE}, {1}, {0}, {1}, {1}, MaxMainKeys, 0)
    /\ rpc = "idle"
    /\ prc = "idle"
    /\ experiment_run_number \in {1, 2}
    /\ accepted_response_accuracy = ACCEPTABLE_ACCURACY
    /\ n_responses = 0
    /\ n_targets = 0
    /\ expected_responses = 0
    /\ lower_bound = 0
    /\ upper_bound = 0
    /\ practice_complete = FALSE
    /\ ppc = "idle"
    /\ max_session_time_min = 1 * MinuteParts
    /\ attention_duration_sec = 50
    /\ interim_duration_sec = 550
    /\ min_standards = 0
    /\ chance_of_oddball = 100
    /\ new_block = <<>>
    /\ session_blocks = <<>>
    /\ estimated_duration = 0
    /\ filler_added = FALSE
    /\ mpc = "session_start"
    /\ enable_practice \in BOOLEAN
    /\ ses_order \in SesOrders
    /\ oddball_order = OddballOrder(OddballTypes)
    /\ run_sessions \in RunPlans(Len(ses_order))
    /\ session_counter = 0
    /\ session_condition = "none"
    /\ main_oddball = "none"
    /\ main_practice_complete = FALSE
    /\ practiced_conditions = {}
    /\ recording_started = FALSE
    /\ step_log = <<>>
    /\ practice_passed = {}
    /\ FrameIdle
SpecMain == InitMain /\ [][MainNext]_vars

\* a plan of two blocks for the odd sessions, the first long enough for a
\* target, and of one block for the even ones
TwoThenOneBlockPlan(num_sessions) ==
    [i \in 1..num_sessions |->
        IF i % 2 = 1 THEN <<<<"s", "s", "s", "o">>, <<"o">>>> ELSE <<<<"o">>>>]

\* the whole first run with practice enabled and no key pressed: every practice
\* plan is one block of four trials, long enough for a target to occur in it
InitMainTargets ==
    /\ SessionInit({<<>>}, {"attend"}, {FALSE}, {1}, {0}, {1}, {1}, 0, 0)
    /\ rpc = "idle"
    /\ prc = "idle"
    /\ experiment_run_number = 1
    /\ accepted_response_accuracy = ACCEPTABLE_ACCURACY
    /\ n_responses = 0
    /\ n_targets = 0
    /\ expected_responses = 0
    /\ lower_bound = 0
    /\ upper_bound = 0
    /\ practice_complete = FALSE
    /\ ppc = "idle"
    /\ max_session_time_min = 1 * MinuteParts
    /\ attention_duration_sec = 70
    /\ interim_duration_sec = 80
    /\ min_standards = 3
    /\ chance_of_oddball = 100
    /\ new_block = <<>>
    /\ session_blocks = <<>>
    /\ estimated_duration = 0
    /\ filler_added = FALSE
    /\ mpc = "session_start"
    /\ enable_practice = TRUE
    /\ ses_order \in SesOrders
    /\ oddball_order \in OddballOrders
    /\ run_sessions = TwoThenOneBlockPlan(Len(ses_order))
    /\ session_counter = 0
    /\ session_condition = "none"
    /\ main_oddball = "none"
    /\ main_practice_complete = FALSE
    /\ practiced_conditions = {}
    /\ recording_started = FALSE
    /\ step_log = <<>>
    /\ practice_passed = {}
    /\ FrameIdle
SpecMainTargets == InitMainTargets /\ [][MainNext]_vars

-----------------------------------------------------------------------------
(* Claims *)

\* C1: for every min_standards >= 0 and 0 < oddball_chance <= 1 and every
\* sequence of draws, the block create_block returns has STANDARD in each of
\* its first min_standards positions, holds exactly one ODDBALL, and that
\* ODDBALL is its last element (so its length is at least min_standards + 1).
C1_CreateBlockShape ==
    ppc = "made" =>
        /\ Len(new_block) >= min_standards + 1
        /\ \A i \in 1..min_standards : new_block[i] = "s"
        /\ new_block[Len(new_block)] = "o"
        /\ Cardinality({i \in 1..Len(new_block) : new_block[i] = "o"}) = 1

C1_Witness ==
    /\ ppc = "made"
    /\ min_standards = 2
    /\ chance_of_oddball < 100
    /\ Len(new_block) = 5

\* C2: the blocks populate_session returns (random blocks plus the optional
\* filler) have a total duration sum(len(block)) * (attention_sec +
\* interim_sec) that never exceeds max_minutes * 60; it holds of the blocks
\* accepted so far at every point of the call as well.
C2_SessionWithinBudget ==
    ppc \in {"loop", "draw", "made", "filler", "done"} =>
        /\ SumLen(session_blocks) * TrialDuration <= MaxSesSeconds
        /\ estimated_duration = SumLen(session_blocks) * TrialDuration

C2_Witness ==
    /\ ppc = "done"
    /\ filler_added
    /\ Len(session_blocks) >= 3
    /\ SumLen(session_blocks) * TrialDuration = MaxSesSeconds

\* C9: get_nearest_frame returns 0, by a normal return, whenever the duration
\* is 0 with a positive refresh rate, whenever the duration is negative, and
\* whenever the refresh rate is <= 0 (whatever the duration).
C9_DegenerateArguments ==
    \/ fps <= 0
    \/ desired_duration_sec < 0
    \/ (desired_duration_sec = 0 /\ fps > 0)

C9_DegenerateGivesZero ==
    /\ (fpc = "call" /\ C9_DegenerateArguments) => ENABLED GetNearestFrameCall
    /\ (fpc = "returned" /\ C9_DegenerateArguments) => n_frames = 0

C9_Witness ==
    /\ fpc = "returned"
    /\ desired_duration_sec < 0
    /\ fps > 0
    /\ n_frames = 0
    /\ frame_log = "error"

\* C10 (as amended): for every duration >= 0 and refresh rate > 0,
\* get_nearest_frame returns a non-negative integer n that is a nearest
\* integer to duration * rate, |n - duration * rate| <= 1/2. (A tie goes to
\* the side on which the floating-point product falls, to even only when the
\* floating-point product is itself the tie.)
C10_NearestFrame ==
    (fpc = "returned" /\ desired_duration_sec >= 0 /\ fps > 0) =>
        /\ n_frames >= 0
        /\ 2 * Abs(n_frames * FrameUnit - desired_duration_sec * fps) <= FrameUnit

C10_Witness ==
    /\ fpc = "returned"
    /\ desired_duration_sec > 0
    /\ fps > 0
    /\ IsTie(desired_duration_sec * fps, FrameUnit)
    /\ n_frames % 2 = 1
    /\ 2 * Abs(n_frames * FrameUnit - desired_duration_sec * fps) = FrameUnit

\* C10 (as claimed): ... a nearest integer to duration * rate, with ties
\* resolved by one consistent rule: some one of half-up, half-down,
\* half-to-even, half-to-odd accounts for every result returned so far.
C10_Original_OneTieRule ==
    /\ C10_NearestFrame
    /\ tie_rules_left # {}


\* the events of the step that has just been taken
HasEvent(kind, id) == \E i \in 1..Len(events) : events[i].kind = kind /\ events[i].id = id
DrawnBefore(id, i) == \E j \in 1..(i - 1) : events[j].kind = "draw" /\ events[j].id = id
FlipIndexes == {i \in 1..Len(events) : events[i].kind = "flip"}
\* a selector call has been made and no later step has moved on to another trial
JustSelected == rpc \in {"stim", "interim_start", "interim"}

\* C3: in the attend condition, with the countdown threaded from call to call,
\* a target resets the countdown to defined_response_delay + 1, the following
\* defined_response_delay calls choose no target (the countdown they see is
\* positive), and any two consecutive targets have at least that many non-target
\* calls between them.
C3_AttendCooldown ==
    (condition = "attend" /\ prc = "idle") =>
        /\ calls_since_target >= 0 =>
               delay_countdown = defined_response_delay - calls_since_target
        /\ target_gap >= 0 => target_gap >= defined_response_delay
C3_Witness ==
    /\ condition = "attend"
    /\ prc = "idle"
    /\ defined_response_delay = MaxResponseDelay
    /\ is_att_target
    /\ JustSelected
    /\ target_gap = defined_response_delay

\* C4: a target is chosen only in a trial whose index is at least 1 and at most
\* len(block) - 3: never in the first trial of a block, never in its last two.
C4_NoTargetAtBlockEdges ==
    (prc = "idle" /\ JustSelected /\ (is_att_target \/ fixation_text = TARGET_LETTER)) =>
        /\ trial_counter >= 1
        /\ trial_counter <= Len(Block) - 3
C4_Witness ==
    /\ prc = "idle"
    /\ condition = "divert"
    /\ JustSelected
    /\ fixation_text = TARGET_LETTER
    /\ Len(Block) = MaxChunkBlockLen
    /\ trial_counter = Len(Block) - 3

\* C5: on a first run, practice passes exactly when the responses lie between the
\* lower bound floor(expected * accuracy) and the upper bound
\* ceil(expected * (2 - accuracy)), both ends included; expected is the number of
\* targets (attend) or a third of it, rounded down (divert).  With 10 targets and
\* accuracy 0.7 in attend the bounds are 7 and 13: 8 passes, 15 fails.
C5_PracticeGate ==
    /\ (prc = "done" /\ experiment_run_number <= 1) =>
          /\ condition = "attend" => expected_responses = n_targets
          /\ condition = "divert" =>
                 /\ 3 * expected_responses <= n_targets
                 /\ n_targets < 3 * expected_responses + 3
          /\ lower_bound * 100 <= expected_responses * accepted_response_accuracy
          /\ expected_responses * accepted_response_accuracy < (lower_bound + 1) * 100
          /\ (upper_bound - 1) * 100 < expected_responses * (200 - accepted_response_accuracy)
          /\ expected_responses * (200 - accepted_response_accuracy) <= upper_bound * 100
          /\ practice_complete <=>
                 (lower_bound <= n_responses /\ n_responses <= upper_bound)
    /\ LowerBound(ExpectedResponses("attend", 10), 70) = 7
    /\ UpperBound(ExpectedResponses("attend", 10), 70) = 13
    /\ WithinBounds(7, 8, 13)
    /\ ~WithinBounds(7, 15, 13)
    /\ WithinBounds(7, 7, 13)
    /\ WithinBounds(7, 13, 13)
C5_Witness ==
    /\ prc = "done"
    /\ experiment_run_number <= 1
    /\ condition = "attend"
    /\ n_targets = 2
    /\ n_responses = lower_bound
    /\ practice_complete

\* C6: on every frame the fixation (probe) stimulus is drawn before the commit;
\* the main stimulus is drawn before the commit exactly on the frames of the
\* stimulus phase whose index is below main_stim_frames, and on no interim frame.
C6_MainStimDrawnOnlyEarlyStimFrames ==
    \A i \in FlipIndexes :
        /\ DrawnBefore("fixation", i)
        /\ DrawnBefore("main", i) <=>
               (events[i].at = "stim" /\ events[i].frame < main_stim_frames)
C6_Witness ==
    /\ main_stim_frames = 1
    /\ attention_frames = MaxAttentionFrames
    /\ \E i \in FlipIndexes :
          /\ events[i].at = "stim"
          /\ events[i].frame = main_stim_frames
          /\ DrawnBefore("fixation", i)
          /\ ~DrawnBefore("main", i)

\* C7: outside practice, MAIN_STIM_OFFSET is sent only in the stimulus phase, on
\* the frame whose index equals main_stim_frames, after that frame's commit and
\* with the commit's timestamp; once the stimulus phase of a trial is over it has
\* been sent exactly once if main_stim_frames < attention_frames and not at all
\* otherwise.
C7_StimOffsetOncePerTrial ==
    ~practice =>
        /\ \A i \in 1..Len(events) :
               (events[i].kind = "msg" /\ events[i].id = "MAIN_STIM_OFFSET") =>
                   /\ events[i].at = "stim"
                   /\ events[i].frame = main_stim_frames
                   /\ \E j \in FlipIndexes : j < i /\ events[j].t = events[i].t
        /\ rpc \in {"interim_start", "subloop", "interim"} =>
               n_stim_offsets = IF main_stim_frames < attention_frames THEN 1 ELSE 0
C7_Witness ==
    /\ ~practice
    /\ rpc = "interim_start"
    /\ main_stim_frames = 1
    /\ n_stim_offsets = 1
    /\ HasEvent("msg", "MAIN_STIM_OFFSET")

\* C8: in the divert condition the letter a selector call chooses differs from the
\* letter the previous call left on the fixation stimulus.
C8_NoImmediateRepeat ==
    (condition = "divert" /\ prc = "idle" /\ att_letter # "") =>
        fixation_text # prev_letter
C8_Witness ==
    /\ condition = "divert"
    /\ prc = "idle"
    /\ prev_letter = TARGET_LETTER
    /\ fixation_text \in {DISTRACTOR_LETTERS[i] : i \in 1..Len(DISTRACTOR_LETTERS)}
    /\ JustSelected

\* C11: on a run number above 1 run_practice returns pass at once: nothing is
\* planned, no block is started, no frame is committed, no key is polled.
C11_LaterRunsBypassPractice ==
    experiment_run_number > 1 =>
        /\ prc \in {"call", "done"}
        /\ ppc = "idle"
        /\ session_blocks = <<>>
        /\ blocks_in_session = <<>>
        /\ rpc = "idle"
        /\ clock = 0
        /\ keys_left = MaxPracticeKeys
        /\ prc = "done" => practice_complete
C11_Witness ==
    /\ experiment_run_number = 2
    /\ prc = "done"
    /\ practice_complete
    /\ keys_left > 0

\* C12: a block run in practice mode sends no message and no variable to the
\* recorder and queries no recording status, on any step; targets and responses
\* are counted all the same.
RecorderContacts == {i \in 1..Len(events) : events[i].kind \in {"msg", "var", "status"}}
C12_PracticeIsSilent ==
    practice => RecorderContacts = {}
C12_Witness ==
    /\ practice
    /\ rpc = "returned"
    /\ n_attention_targets >= 1
    /\ n_attention_responses >= 1
    /\ keypress_times = <<>>

\* C13: outside practice a non-OK recording status is logged and the frame goes
\* on to its commit; whatever the statuses were, the block returns after the same
\* number of commits and selector calls, with the same countdown.
FramesPerTrial == attention_frames * (1 + NumOfSubloops)
CallsPerTrial == 1 + NumOfSubloops
C13_StatusFaultNonFatal ==
    ~practice =>
        /\ rpc # "raised"
        /\ \A i \in 1..Len(events) :
               (events[i].kind = "status" /\ events[i].id # TRIAL_OK) =>
                   /\ i < Len(events)
                   /\ events[i + 1].kind = "log"
                   /\ \E j \in FlipIndexes : j > i
        /\ rpc = "returned" =>
               /\ clock = 2 * Len(Block) * FramesPerTrial
               /\ delay_countdown = main_delay_countdown - Len(Block) * CallsPerTrial
               /\ n_attention_targets = 0
C13_Witness ==
    /\ ~practice
    /\ rpc = "returned"
    /\ status_faults_left < MaxStatusFaults
    /\ Len(Block) = MaxFrameBlockLen
    /\ interim_frames > 0

RaisedWith(id) ==
    /\ rpc = "raised"
    /\ \E i \in 1..Len(events) : events[i].kind = "raise" /\ events[i].id = id

\* C14: a recorder call that fails during a block does not end the trial loop:
\* no exception of the recorder leaves run_block.
C14_DeviceFailureCaught == ~RaisedWith("RuntimeError")

\* C15: on the frame where the abort key is polled the termination routine is
\* called and the runner does not go on to another step of the block.
EscapePolled ==
    \E i \in 1..Len(events) : events[i].kind = "poll" /\ InSeq("escape", events[i].info)
C15_AbortKeyTerminatesRun ==
    EscapePolled =>
        /\ HasEvent("call", "terminate_task")
        /\ rpc \notin {"trial", "stim", "interim_start", "subloop", "interim"}

\* C16: a block with an unknown trial type is run to its end: the error is
\* logged and no exception leaves run_block.
HasUnknownType(block) == \E i \in 1..Len(block) : block[i] \notin {"s", "o"}
C16_UnknownTrialTypeHandled ==
    HasUnknownType(Block) => ~RaisedWith("UnboundLocalError")

\* C19: when the accept loop is over, with L the whole number of trial durations
\* that fit in the remaining budget: a filler block is appended exactly when
\* L >= min_standards + 1; it is the last block, it is L - 1 standards and one
\* oddball, and less than one trial duration of budget is left after it.
ExactQuotient(remaining_time, trial_duration) ==
    CHOOSE l \in 0..remaining_time :
        l * trial_duration <= remaining_time /\ remaining_time < (l + 1) * trial_duration
C19_FillerStep ==
    LET L == ExactQuotient(MaxSesSeconds - estimated_duration, TrialDuration)
    IN  /\ ppc' = "done"
        /\ IF L >= min_standards + 1
           THEN /\ session_blocks' =
                       Append(session_blocks, [i \in 1..L |-> IF i < L THEN "s" ELSE "o"])
                /\ MaxSesSeconds - (estimated_duration + L * TrialDuration) < TrialDuration
           ELSE session_blocks' = session_blocks
C19_FillerBlock == [][ppc = "filler" => C19_FillerStep]_vars

PracticeEntries == {"attempt_pass", "attempt_fail", "retry_message"}
IsSessionStep(step) == step \notin PracticeEntries
SessionSteps == SelectSeq(step_log, IsSessionStep)
SessionOrder ==
    <<"practice_gate", "drift_check", "recording_start", "adaptation", "blocks">>
HasStep(step) == InSeq(step, step_log)
MainBlockRunning ==
    /\ ~practice
    /\ rpc \in {"block_start", "trial", "stim", "interim_start", "subloop", "interim",
                "returned"}
C17_SessionStepOrder ==
    LET steps == SessionSteps
        n == Len(steps)
    IN  /\ \A i \in 1..n : i <= Len(SessionOrder) => steps[i] = SessionOrder[i]
        /\ n > Len(SessionOrder) =>
               SubSeq(steps, Len(SessionOrder) + 1, n) \in
                   {<<"recording_stop">>, <<"break">>, <<"recording_stop", "break">>}
        /\ \A i \in 1..Len(step_log) :
               step_log[i] \in PracticeEntries =>
                   \A j \in 1..(i - 1) :
                       step_log[j] \in PracticeEntries \cup {"practice_gate"}
        /\ MainBlockRunning => (mpc = "blocks" /\ n = Len(SessionOrder))
        /\ mpc = "blocks" => blocks_in_session = run_sessions[session_counter + 1]
        /\ mpc = "break" =>
               /\ n >= Len(SessionOrder)
               /\ blocks_in_session = run_sessions[session_counter + 1]
               /\ block_counter + 1 >= Len(blocks_in_session)
               /\ HasStep("recording_stop") <=> recording_started
        /\ (mpc = "session_start" /\ session_counter > 0) =>
               /\ n >= Len(SessionOrder)
               /\ HasStep("recording_stop") <=> recording_started
               /\ HasStep("break") <=> session_counter # Len(ses_order)
C17_Witness ==
    /\ mpc = "session_start"
    /\ session_counter = Len(ses_order)
    /\ step_log = <<"practice_gate">> \o Tail(SessionOrder) \o <<"recording_stop">>
    /\ Len(run_sessions[Len(ses_order)]) = 2
C17_WitnessBreak ==
    /\ mpc = "session_start"
    /\ session_counter = 1
    /\ HasStep("attempt_fail")
    /\ SessionSteps = SessionOrder \o <<"recording_stop", "break">>

\* C18: with practice enabled no main block of a condition runs, and the
\* condition is not in the practiced set, before run_practice has returned a
\* pass for it; after a failed attempt the next step of the gate is another
\* call of run_practice.
C18_State ==
    enable_practice =>
        /\ MainBlockRunning => session_condition \in practice_passed
        /\ practiced_conditions \subseteq practice_passed
C18_Step ==
    /\ (mpc = "practice" /\ prc = "done" /\ ~practice_complete) =>
           (mpc' = "practice_loop" /\ ~main_practice_complete')
    /\ (mpc = "practice_loop" /\ ~main_practice_complete) =>
           (mpc' = "practice" /\ prc' = "call" /\ condition' = session_condition
                /\ practiced_conditions' = practiced_conditions)
C18_PracticeBeforeBlocks == []C18_State /\ [][C18_Step]_vars
C18_Witness ==
    /\ enable_practice
    /\ MainBlockRunning
    /\ session_counter = 0
    /\ rpc = "stim"
    /\ HasStep("attempt_fail")
    /\ HasStep("attempt_pass")
    /\ experiment_run_number = 1

\* C21: every MAIN_STIM_ONSET, FIXATION_STIM_ONSET and MAIN_STIM_OFFSET marker
\* comes after the commit of its own frame and carries the time that commit
\* returned, which is later than every clock value read before the commit.
TimedMarkerIds == {"MAIN_STIM_ONSET", "FIXATION_STIM_ONSET", "MAIN_STIM_OFFSET"}
IsTimedMarker(e) == e.kind = "msg" /\ e.id \in TimedMarkerIds
C21_MarkersCarryCommitTime ==
    \A i \in 1..Len(events) :
        IsTimedMarker(events[i]) =>
            /\ Cardinality(FlipIndexes) = 1
            /\ \E j \in FlipIndexes :
                  /\ j < i
                  /\ events[j].frame = events[i].frame
                  /\ events[j].t = events[i].t
                  /\ \A k \in 1..(j - 1) : events[k].t < events[i].t
            /\ events[i].t = clock
C21_Witness ==
    /\ ~practice
    /\ HasEvent("msg", "MAIN_STIM_ONSET")
    /\ HasEvent("msg", "FIXATION_STIM_ONSET")
    /\ HasEvent("msg", "MAIN_STIM_OFFSET")
    /\ HasEvent("status", "TRIAL_ERROR")
C21_WitnessInterim ==
    /\ ~practice
    /\ \E i \in 1..Len(events) : IsTimedMarker(events[i]) /\ events[i].at = "interim"

\* C22: the response count of a block grows, frame by frame, by the number of
\* 'space' presses polled on that frame and by nothing else, so the count
\* returned is the number of 'space' presses; outside practice the presses of a
\* poll are followed, in order, by one marker each (KEY_RESPONSE for 'space',
\* UNEXPECTED_KEY_RESPONSE otherwise) that carries the time of the press, not
\* the time of the commit; in practice no key marker is sent.
KeyMarkerIds == {"KEY_RESPONSE", "UNEXPECTED_KEY_RESPONSE"}
PollIndexes(evs) == {i \in 1..Len(evs) : evs[i].kind = "poll"}
SpacesPolled(evs) ==
    Cardinality({<<i, j>> \in (1..Len(evs)) \X (1..MaxPollKeys) :
                     /\ evs[i].kind = "poll"
                     /\ j <= Len(evs[i].info)
                     /\ evs[i].info[j] = "space"})
KeyMarkerIndexes == {i \in 1..Len(events) : events[i].kind = "msg" /\ events[i].id \in KeyMarkerIds}
C22_Markers ==
    /\ Cardinality(PollIndexes(events)) <= 1
    /\ PollIndexes(events) = {} => KeyMarkerIndexes = {}
    /\ \A p \in PollIndexes(events) :
          LET names == events[p].info
              k == Len(names)
              n == Len(keypress_times)
          IN  /\ n >= k
              /\ IF practice
                 THEN KeyMarkerIndexes = {}
                 ELSE /\ KeyMarkerIndexes = {p + j : j \in 1..k}
                      /\ \A j \in 1..k :
                            /\ events[p + j].id = IF names[j] = "space"
                                                  THEN "KEY_RESPONSE"
                                                  ELSE "UNEXPECTED_KEY_RESPONSE"
                            /\ events[p + j].info = <<names[j]>>
                            /\ events[p + j].t = keypress_times[n - k + j]
                            /\ events[p + j].t # clock
C22_Step ==
    n_attention_responses' =
        (IF rpc = "block_start" THEN 0 ELSE n_attention_responses) + SpacesPolled(events')
C22_ResponsesAreSpacePresses == []C22_Markers /\ [][C22_Step]_vars
C22_Witness ==
    /\ ~practice
    /\ rpc = "returned"
    /\ keys_left = 0
    /\ n_attention_responses = MaxPollKeys - 1
C22_WitnessPoll ==
    /\ ~practice
    /\ HasEvent("msg", "KEY_RESPONSE")
    /\ HasEvent("msg", "UNEXPECTED_KEY_RESPONSE")
    /\ n_attention_responses = MaxPollKeys - 1

\* C23: in every trial the selector is called 1 + interim_frames // attention_frames
\* times: once before the first commit of the stimulus phase and once before the
\* first commit of each interim sub-chunk; no step that commits a frame calls
\* it, and the probe value does not change between the frames of a chunk.
ProbeState == <<fixation_colour, fixation_text, is_att_target, att_letter>>
C23_Calls ==
    /\ rpc \in {"stim", "interim_start"} => trial_calls = 1
    /\ rpc = "interim" => trial_calls = interim_subloop + 2
    /\ rpc = "subloop" => trial_calls = interim_subloop + 1
    /\ (rpc \in {"trial", "returned"} /\ trial_counter > 0) =>
           trial_calls = 1 + interim_frames \div attention_frames
    /\ FlipIndexes # {} => \A i \in 1..Len(events) : events[i].kind # "select"
    /\ \A i \in 1..Len(events) :
           (events[i].kind = "draw" /\ events[i].id = "fixation") =>
               events[i].info = <<FixationValue>>
C23_Step ==
    /\ rpc \in {"stim", "interim"} => UNCHANGED <<ProbeState, trial_calls, delay_countdown>>
    /\ trial_calls' # trial_calls =>
           /\ rpc \in {"trial", "subloop"}
           /\ rpc' \in {"stim", "interim"}
           /\ frameN' = 0
C23_SelectorOncePerChunk == []C23_Calls /\ [][C23_Step]_vars
C23_Witness ==
    /\ prc = "idle"
    /\ rpc = "trial"
    /\ trial_counter = 1
    /\ attention_frames = MaxAttentionFrames
    /\ interim_frames = MaxAttentionFrames
    /\ trial_calls = 2
    /\ clock = 2 * (2 * MaxAttentionFrames)

\* C24: a selector call lowers the countdown by one after the target decision:
\* without a target it returns the incoming countdown minus 1, with an attend
\* target the cooldown (defined_response_delay), with a divert target 2,
\* whatever the cooldown is.
SelectorCallDue ==
    \/ rpc = "trial" /\ trial_counter < Len(Block)
    \/ rpc = "subloop" /\ interim_subloop < NumOfSubloops
C24_Step ==
    (SelectorCallDue /\ rpc' # "raised") =>
        delay_countdown' =
            IF ~is_att_target' THEN delay_countdown - 1
            ELSE IF condition = "attend" THEN defined_response_delay
            ELSE 2
C24_CountdownDecrement == [][C24_Step]_vars
C24_Witness ==
    /\ prc = "idle"
    /\ condition = "divert"
    /\ JustSelected
    /\ is_att_target
    /\ defined_response_delay = 0
    /\ delay_countdown = 2
C24_WitnessAttend ==
    /\ prc = "idle"
    /\ condition = "attend"
    /\ JustSelected
    /\ is_att_target
    /\ defined_response_delay = MaxResponseDelay
    /\ delay_countdown = MaxResponseDelay

\* C25: in the attend condition a selector call produces a target only in an
\* eligible trial and with an incoming countdown of 0 or less (the countdown
\* keeps falling below 0 while no target is drawn); in every other case the
\* call sets the normal colour, leaves the target count unchanged and reports
\* no target.
TrialEligible == trial_counter >= 1 /\ trial_counter <= Len(Block) - 3
AttendCallKeepsNormal ==
    /\ fixation_colour' = STANDARD_COLOUR
    /\ n_attention_targets' = n_attention_targets
    /\ ~is_att_target'
C25_Step ==
    (SelectorCallDue /\ condition = "attend") =>
        /\ is_att_target' =>
               /\ TrialEligible
               /\ delay_countdown <= 0
               /\ fixation_colour' = RESPONSE_COLOUR
               /\ n_attention_targets' = n_attention_targets + 1
        /\ ~(TrialEligible /\ delay_countdown <= 0) => AttendCallKeepsNormal
C25_AttendTargetGate == [][C25_Step]_vars
C25_Witness ==
    /\ prc = "idle"
    /\ condition = "attend"
    /\ JustSelected
    /\ is_att_target
    /\ target_gap > defined_response_delay
\* the statement with "exactly 0" in place of "0 or less"
C25_OriginalStep ==
    (SelectorCallDue /\ condition = "attend") =>
        /\ is_att_target' => (TrialEligible /\ delay_countdown = 0)
        /\ ~(TrialEligible /\ delay_countdown = 0) => AttendCallKeepsNormal
C25_Original_ExactlyZero == [][C25_OriginalStep]_vars

\* C26: in the divert condition with the threshold of config.py (-4), on a
\* selector call that admits the target letter (trial eligible, incoming
\* countdown below 0) the candidate list holds the target letter twice when
\* the countdown is -4 or less and once when it is -1, -2 or -3.
TargetCopies(choices) == Cardinality({i \in 1..Len(choices) : choices[i] = TARGET_LETTER})
DivertCandidates == DivertChoices(trial_counter, AcceptableTargetIdxs(Len(Block)))
TargetAdmitted ==
    /\ condition = "divert"
    /\ prob_threshold = -4
    /\ SelectorCallDue
    /\ TrialEligible
    /\ delay_countdown < 0
C26_SecondCopyFromThreshold ==
    /\ TargetAdmitted =>
           TargetCopies(DivertCandidates) = IF delay_countdown <= -4 THEN 2 ELSE 1
    /\ (condition = "divert" /\ SelectorCallDue /\ ~(TrialEligible /\ delay_countdown < 0)) =>
           TargetCopies(DivertCandidates) = 0
C26_Witness ==
    /\ TargetAdmitted
    /\ delay_countdown = -4
    /\ TargetCopies(DivertCandidates) = 2
    /\ Len(DivertCandidates) = Len(DISTRACTOR_LETTERS) + 1
\* the statement as made: twice whenever the target letter is admitted
C26_Original_AlwaysTwice == TargetAdmitted => TargetCopies(DivertCandidates) = 2

\* C27: get_letter never draws from an empty list: on every selector call of the
\* divert condition, for every non-empty distractor list and every letter
\* shown before, the list random.choice draws from holds a letter, and the
\* call returns one.
C27_LetterAlwaysReturned ==
    /\ (condition = "divert" /\ SelectorCallDue /\ distractor_letters # <<>>) =>
           DivertCandidates # <<>>
    /\ ~RaisedWith("IndexError")

\* C28: in the divert condition, after a call that shows the target letter, two
\* non-target letters must be shown before the target letter can be drawn
\* again: the first and the second call after a target do not admit it, and the
\* third call after a target, in an eligible trial, does.
C28_TargetAgainAtThirdCall ==
    (condition = "divert" /\ SelectorCallDue /\ calls_since_target >= 0) =>
        /\ calls_since_target < 2 => TargetCopies(DivertCandidates) = 0
        /\ (calls_since_target = 2 /\ TrialEligible) => TargetCopies(DivertCandidates) >= 1

\* C29: outside practice, in the interim phase, a probe-target offset marker with
\* the commit's time follows the first commit of a sub-chunk exactly when the
\* chunk before it showed a target and this sub-chunk does not; no other frame
\* has a probe-target offset marker.
ProbeOffsetIds == {"FIXATION_STIM_OFFSET", "VISUAL_TARGET_BLUE_OFF", "VISUAL_TARGET_X_OFF"}
ProbeOffsetAfter(i) ==
    \E k \in (i + 1)..Len(events) :
        /\ events[k].kind = "msg"
        /\ events[k].id \in ProbeOffsetIds
        /\ events[k].t = events[i].t
\* the chunk now shown is the first without a target after a chunk with one
FirstChunkAfterTarget == calls_since_target = 1 /\ ~is_att_target
C29_InterimProbeOffset ==
    ~practice =>
        \A i \in FlipIndexes :
            ProbeOffsetAfter(i) <=>
                (events[i].at = "interim" /\ events[i].frame = 0 /\ FirstChunkAfterTarget)

\* C30: outside practice every probe-target onset is followed by its offset,
\* sent on the first commit of the next chunk that shows no target, be it a
\* sub-chunk of the same trial or the stimulus phase of the next trial.
C30_OnsetHasOffset ==
    ~practice =>
        \A i \in FlipIndexes :
            (events[i].frame = 0 /\ FirstChunkAfterTarget) => ProbeOffsetAfter(i)


-----------------------------------------------------------------------------
\* C31: the countdown passed into each main-session block equals the countdown
\* the previously run main-session block returned, also across a session
\* boundary and a change of condition; the first block receives the configured
\* response delay; the target and response counts start at 0 in every block.
MainBlockAt(pos) == mpc = "blocks" /\ rpc = pos

C31_State ==
    /\ MainBlockAt("block_start") => delay_countdown = main_delay_countdown
    /\ MainBlockAt("block_start") /\ session_counter = 0 /\ block_counter = 0
           => delay_countdown = defined_response_delay
    /\ rpc = "trial" /\ trial_counter = 0
           => n_attention_targets = 0 /\ n_attention_responses = 0

\* main's countdown changes only by taking the value a main-session block returned
C31_Step ==
    /\ main_delay_countdown' # main_delay_countdown => MainBlockAt("returned")
    /\ MainBlockAt("returned") /\ rpc' # "returned"
           => main_delay_countdown' = delay_countdown

C31_CountdownContinuous == []C31_State /\ [][C31_Step]_vars

\* the first block of the third session starts: the condition has changed, a
\* practice round of the new condition has run, and the countdown is the one
\* the second session's block returned
C31_Witness ==
    /\ MainBlockAt("block_start")
    /\ session_counter = 2
    /\ block_counter = 0
    /\ session_condition # ses_order[1]
    /\ session_condition \in practice_passed
    /\ delay_countdown = main_delay_countdown
    /\ delay_countdown # defined_response_delay

\* a target of a main-session block has reset the countdown that the next
\* block of the session receives
C31_WitnessTarget ==
    /\ MainBlockAt("block_start")
    /\ block_counter = 1
    /\ ~practice
    /\ n_attention_targets = 1
    /\ delay_countdown = main_delay_countdown


-----------------------------------------------------------------------------
\* C32: create_block terminates for every 0 < oddball_chance <= 1 when a draw
\* below the chance eventually occurs (with chance 1 the block has exactly
\* min_standards + 1 symbols), and populate_session terminates for every
\* trial duration > 0 and finite budget: its accept loop stops at the first
\* generated block that would exceed the budget, discards that block and
\* generates no further random block.
ExceedsBudget(estimated, block_duration, max_seconds) ==
    estimated + block_duration > max_seconds

C32_StopStep ==
    /\ ppc = "made" /\ ppc' = "loop"
           => ~ExceedsBudget(estimated_duration, Len(new_block) * TrialDuration, MaxSesSeconds)
    /\ ppc = "made" /\ ppc' = "filler"
           => /\ ExceedsBudget(estimated_duration, Len(new_block) * TrialDuration, MaxSesSeconds)
              /\ session_blocks' = session_blocks
    /\ ppc \in {"filler", "done"} => ppc' \in {"filler", "done"} /\ new_block' = new_block

C32_PlannerTerminates ==
    /\ (ppc = "draw") ~> (ppc = "made")
    /\ <>(ppc = "done")
    /\ [](ppc = "made" /\ chance_of_oddball = 100 => Len(new_block) = min_standards + 1)
    /\ [][C32_StopStep]_vars

\* the parts of the statement that hold: both loops terminate, a block drawn
\* with chance 1 has min_standards + 1 symbols, the rejected block is
\* discarded and no block is generated after it
C32_TerminatesAndDiscards ==
    /\ (ppc = "draw") ~> (ppc = "made")
    /\ <>(ppc = "done")
    /\ [](ppc = "made" /\ chance_of_oddball = 100 => Len(new_block) = min_standards + 1)
    /\ [][/\ (ppc = "made" /\ ppc' = "filler" => session_blocks' = session_blocks)
          /\ (ppc \in {"filler", "done"} => ppc' \in {"filler", "done"} /\ new_block' = new_block)]_vars


-----------------------------------------------------------------------------
\* C33: for every block and attention_frames > 0, run_block commits exactly
\* len(block) * attention_frames * (1 + interim_frames // attention_frames)
\* frames, whatever the condition, the practice flag, the keys polled and the
\* recording statuses observed; the frames of interim_frames beyond the last
\* whole sub-chunk are never committed.
\* (The clock starts at 0 and advances by 2 with every commit.)
CommitsSoFar == clock \div 2
CommitsOfBlock(block_len) ==
    block_len * attention_frames * (1 + interim_frames \div attention_frames)

C33_CommitsPerBlock ==
    /\ rpc # "raised"
    /\ clock % 2 = 0
    /\ attention_frames > 0 /\ rpc = "returned" => CommitsSoFar = CommitsOfBlock(Len(Block))
    /\ attention_frames > 0 /\ rpc = "trial"
           => CommitsSoFar = CommitsOfBlock(trial_counter)

\* a practice block of two trials has returned, a key was polled on the way and
\* one frame of the interim period fell outside the last whole sub-chunk
C33_Witness ==
    /\ rpc = "returned"
    /\ practice
    /\ Len(Block) = MaxFrameBlockLen
    /\ keys_left < MaxKeys
    /\ interim_frames % attention_frames # 0
    /\ CommitsSoFar = MaxFrameBlockLen * attention_frames

\* a recorded divert block has returned after a non-OK recording status
C33_WitnessRecorded ==
    /\ rpc = "returned"
    /\ ~practice
    /\ condition = "divert"
    /\ status_faults_left < MaxStatusFaults
    /\ interim_frames = 2 * attention_frames
    /\ CommitsSoFar = 3 * Len(Block) * attention_frames


-----------------------------------------------------------------------------
\* C34: the target count run_block returns equals the number of chunks of
\* that block for which the selector reported a target: each selector call
\* adds exactly 1 to the count when it reports a target and leaves the count
\* unchanged otherwise, in both conditions.
C34_Count ==
    rpc \notin {"idle", "block_start", "raised"} => n_attention_targets = target_chunks

C34_Step ==
    /\ (SelectorCallDue /\ rpc' # "raised")
           => n_attention_targets' = n_attention_targets + (IF is_att_target' THEN 1 ELSE 0)
    /\ (~SelectorCallDue /\ rpc # "block_start")
           => n_attention_targets' = n_attention_targets

C34_TargetCountIsTargetChunks == []C34_Count /\ [][C34_Step]_vars

\* a divert block has returned a count of two targets, the second block of its session
C34_Witness ==
    /\ rpc = "returned"
    /\ condition = "divert"
    /\ block_counter = 1
    /\ n_attention_targets = 2
    /\ target_chunks = 2

\* an attend block has returned with a target in one chunk of several
C34_WitnessAttend ==
    /\ rpc = "returned"
    /\ condition = "attend"
    /\ n_attention_targets = 1
    /\ Len(Block) * CallsPerTrial > 2


-----------------------------------------------------------------------------
\* C35: in a non-practice block the markers of each trial come in this order:
\* one trial-start marker before the first commit of the trial, the
\* primary-stimulus onset and probe onset markers after the commit of
\* stimulus-phase frame 0, one interim-start marker after the last
\* stimulus-phase commit and before the first interim commit, one probe onset
\* marker per interim sub-chunk after its frame-0 commit, and one interim-end
\* marker after the last interim commit and before the next trial's
\* trial-start marker; the block-start marker is emitted exactly once, before
\* the first trial-start marker.
RECURSIVE ConcatTimes(_, _)
ConcatTimes(seq, n) == IF n <= 0 THEN <<>> ELSE seq \o ConcatTimes(seq, n - 1)

IsPrefix(a, b) == Len(a) <= Len(b) /\ SubSeq(b, 1, Len(a)) = a

StimPhaseOrder ==
    <<"flip", "MAIN_STIM_ONSET", "FIXATION_STIM_ONSET">> \o Repeat("flip", attention_frames - 1)
SubChunkOrder ==
    <<"flip", "FIXATION_STIM_ONSET">> \o Repeat("flip", attention_frames - 1)
TrialOrder ==
    <<"TRIALID">> \o StimPhaseOrder \o <<"INTERIM_START">>
        \o ConcatTimes(SubChunkOrder, interim_frames \div attention_frames)
        \o <<"INTERIM_END">>
BlockOrder(trials) == <<"BLOCK_START">> \o ConcatTimes(TrialOrder, trials)

C35_MarkerOrder ==
    (~practice /\ attention_frames > 0 /\ rpc \notin {"idle", "block_start"}) =>
        /\ IsPrefix(marker_log, BlockOrder(Len(Block)))
        /\ rpc = "trial" => marker_log = BlockOrder(trial_counter)
        /\ rpc = "returned" => marker_log = BlockOrder(Len(Block))

\* a recorded block of two trials has returned; every chunk had two frames and
\* every trial one interim sub-chunk
C35_Witness ==
    /\ ~practice
    /\ rpc = "returned"
    /\ Len(Block) = MaxFrameBlockLen
    /\ attention_frames = MaxAttentionFrames
    /\ interim_frames = MaxAttentionFrames
    /\ marker_log = BlockOrder(MaxFrameBlockLen)
    /\ Len(marker_log) = 1 + MaxFrameBlockLen * (6 + 2 * MaxAttentionFrames)


-----------------------------------------------------------------------------
\* C36: every block of a main session is run only after recording was
\* successfully started in that session: if starting the recording fails, no
\* block of that session is run.
C36_BlocksOnlyWhenRecording ==
    (mpc = "blocks" /\ rpc \in {"trial", "stim", "interim_start", "subloop", "interim", "returned"})
        => recording_started


-----------------------------------------------------------------------------
\* C37: a practice attempt leaves main's countdown unchanged: whatever targets
\* occur during the practice blocks, the countdown passed to the first
\* main-session block after the practice is the countdown main held before
\* the practice attempt.
BeforeSessionBlocks ==
    mpc \in {"session_start", "practice_loop", "practice", "drift_check",
             "start_recording", "adaptation", "run_session"}

C37_Step ==
    /\ BeforeSessionBlocks => main_delay_countdown' = main_delay_countdown
    /\ mpc = "run_session" /\ rpc' = "block_start" => delay_countdown' = main_delay_countdown

C37_PracticeKeepsCountdown == [][C37_Step]_vars

\* the first block of a session starts after a practice round in which a target
\* occurred; it receives main's countdown
C37_Witness ==
    /\ MainBlockAt("block_start")
    /\ block_counter = 0
    /\ session_condition \in practice_passed
    /\ session_counter \in {0, 2}
    /\ n_targets >= 1
    /\ delay_countdown = main_delay_countdown

\* run_practice has returned after a block with a target; the countdown its
\* last block returned differs from main's
C37_WitnessPractice ==
    /\ mpc = "practice"
    /\ prc = "done"
    /\ n_targets >= 1
    /\ delay_countdown # main_delay_countdown


-----------------------------------------------------------------------------
\* C38: across the four sessions of a run, the two sessions of the same
\* attention condition are consecutive and each pair (attention condition,
\* common oddball) occurs in exactly one session, for every outcome of the
\* two shuffles.
SessionsWith(cond, oddball) ==
    {i \in 1..Len(ses_order) : ses_order[i] = cond /\ oddball_order[i] = oddball}

C38_SessionPairs ==
    mpc # "idle" =>
        /\ Len(ses_order) = 4
        /\ Len(oddball_order) = 4
        /\ session_counter \in 0..4
        /\ \A cond \in {"attend", "divert"} :
               /\ \E i \in 1..3 : {j \in 1..4 : ses_order[j] = cond} = {i, i + 1}
               /\ \A k \in 1..Len(OddballTypes) :
                      Cardinality(SessionsWith(cond, OddballTypes[k])) = 1
        /\ (mpc # "session_start" /\ session_counter < 4) =>
               /\ session_condition = ses_order[session_counter + 1]
               /\ main_oddball = oddball_order[session_counter + 1]

\* the fourth session runs its block: an attend session with the fine gabor as
\* common oddball, after both shuffles swapped their lists
C38_Witness ==
    /\ MainBlockAt("trial")
    /\ session_counter = 3
    /\ session_condition = "attend"
    /\ main_oddball = "fine gabor"
    /\ ses_order[1] = "divert"
    /\ oddball_order[1] = "noise disk"

\* ---------------------------------------------------------------------------
\* C39: when the budget max_minutes * 60 is smaller than
\* (min_standards + 1) * trial_duration, populate_session returns an empty block
\* sequence and an estimated duration of 0; in every other case the returned
\* sequence is non-empty.
BudgetBelowShortestBlock == MaxSesSeconds < (min_standards + 1) * TrialDuration
C39_EmptyIffBudgetTooSmall ==
    ppc = "done"
        => IF BudgetBelowShortestBlock
           THEN session_blocks = <<>> /\ estimated_duration = 0
           ELSE session_blocks # <<>>

\* the first half of C39 alone: a budget below the shortest block gives the
\* empty result
C39_SmallBudgetGivesEmpty ==
    (ppc = "done" /\ BudgetBelowShortestBlock)
        => (session_blocks = <<>> /\ estimated_duration = 0)

\* a budget of exactly one shortest block, and the empty result
C39_ExactFitReturnsEmpty ==
    /\ ppc = "done"
    /\ MaxSesSeconds = (min_standards + 1) * TrialDuration
    /\ session_blocks = <<>>
    /\ estimated_duration = 0

\* the same budget, and the one block returned
C39_ExactFitReturnsBlock ==
    /\ ppc = "done"
    /\ max_session_time_min = ExactFitBudget
    /\ session_blocks = <<Repeat("s", min_standards) \o <<"o">>>>

=============================================================================
